---------------------------- MODULE Spec2Model ----------------------------
(***************************************************************************)
(* A model of the LIDL receipt parser of the receipts worker               *)
(* (apps/receipts-worker/src/lidl_receipt_ocr.py).                         *)
(*                                                                         *)
(* Representation.                                                         *)
(*   - A text is a sequence of one-character strings, so that the regular  *)
(*     expressions of the source are matched character by character.       *)
(*   - An amount is an integer number of hundredths (7,99 is 799); the     *)
(*     source holds floats that carry two decimals.                        *)
(*   - Python's None is the empty tuple and a present value v is <<v>>.    *)
(*   - The OCR lines of one receipt are drawn from Vocab, a finite        *)
(*     vocabulary of receipt lines; the state holds each line with what    *)
(*     the tokenizers of the parser say of it.                             *)
(***************************************************************************)
EXTENDS Integers, Sequences, FiniteSets, TLC

None == << >>
Some(v) == << v >>
Val(o) == o[1]

\* F of the value v: a LET whose value is written once.
With(v, F(_)) == F(v)

(***************************************************************************)
(* Characters                                                              *)
(***************************************************************************)
Digits == <<"0", "1", "2", "3", "4", "5", "6", "7", "8", "9">>
LowerLetters == <<"a", "b", "c", "d", "e", "f", "g", "h", "i", "j", "k", "l", "m",
                  "n", "o", "p", "q", "r", "s", "t", "u", "v", "w", "x", "y", "z">>
UpperLetters == <<"A", "B", "C", "D", "E", "F", "G", "H", "I", "J", "K", "L", "M",
                  "N", "O", "P", "Q", "R", "S", "T", "U", "V", "W", "X", "Y", "Z">>

IsDigit(c) == \E k \in DOMAIN Digits : Digits[k] = c
DigitVal(c) == (CHOOSE k \in DOMAIN Digits : Digits[k] = c) - 1
IsLower(c) == \E k \in DOMAIN LowerLetters : LowerLetters[k] = c
IsUpper(c) == \E k \in DOMAIN UpperLetters : UpperLetters[k] = c
\* \s of the regular expressions; a normalized line holds no other whitespace.
IsSpace(c) == c = " "
\* \w of the regular expressions (for the word boundary \b).
IsWordChar(c) == IsDigit(c) \/ IsLower(c) \/ IsUpper(c) \/ c = "_"

UpperChar(c) ==
    IF IsLower(c)
    THEN UpperLetters[CHOOSE k \in DOMAIN LowerLetters : LowerLetters[k] = c]
    ELSE c

\* _upper_ascii: the vocabulary is ASCII, so stripping diacritics changes nothing.
_upper_ascii(s) == [k \in DOMAIN s |-> UpperChar(s[k])]

(***************************************************************************)
(* Text helpers                                                            *)
(***************************************************************************)
\* s[a-1:b] of Python: the characters a..b that exist.
Slice(s, a, b) ==
    LET lo == IF a < 1 THEN 1 ELSE a
        hi == IF b > Len(s) THEN Len(s) ELSE b
    IN  IF lo > hi THEN << >> ELSE SubSeq(s, lo, hi)

RECURSIVE LStrip(_)
LStrip(s) == IF s # << >> /\ IsSpace(Head(s)) THEN LStrip(Tail(s)) ELSE s

RECURSIVE RStrip(_)
RStrip(s) ==
    IF s # << >> /\ IsSpace(s[Len(s)]) THEN RStrip(Slice(s, 1, Len(s) - 1)) ELSE s

Strip(s) == RStrip(LStrip(s))

RECURSIVE CollapseSpaces(_)
CollapseSpaces(s) ==
    IF Len(s) < 2 THEN s
    ELSE IF IsSpace(s[1]) /\ IsSpace(s[2]) THEN CollapseSpaces(Tail(s))
    ELSE <<s[1]>> \o CollapseSpaces(Tail(s))

_norm_spaces(s) == Strip(CollapseSpaces(s))

StartsWith(s, t) == Len(t) <= Len(s) /\ SubSeq(s, 1, Len(t)) = t
Contains(s, t) ==
    \E p \in 1..(Len(s) - Len(t) + 1) : SubSeq(s, p, p + Len(t) - 1) = t
HasChar(s, c) == \E k \in DOMAIN s : s[k] = c
RemoveChar(s, c) == SelectSeq(s, LAMBDA x : x # c)

RECURSIVE DigitsValue(_)
DigitsValue(s) ==
    IF s = << >> THEN 0
    ELSE 10 * DigitsValue(Slice(s, 1, Len(s) - 1)) + DigitVal(s[Len(s)])

At(s, p) == IF p \in DOMAIN s THEN s[p] ELSE ""
DigitAt(s, p) == p \in DOMAIN s /\ IsDigit(s[p])

RECURSIVE SkipSpaces(_, _)
SkipSpaces(s, p) == IF p \in DOMAIN s /\ IsSpace(s[p]) THEN SkipSpaces(s, p + 1) ELSE p

RECURSIVE SkipDigits(_, _)
SkipDigits(s, p) == IF DigitAt(s, p) THEN SkipDigits(s, p + 1) ELSE p

(***************************************************************************)
(* _MONEY_RE = (\d{1,3}(?:[.\s]\d{3})*[.,]\s*\d{2})                         *)
(* The ends of the matches that start at one position are listed in the    *)
(* order in which the backtracking matcher tries them (greedy first), so   *)
(* that search takes the first and fullmatch may take any.                 *)
(***************************************************************************)
IsDecimalSep(c) == c = "." \/ c = ","
IsGroupSep(c) == c = "." \/ IsSpace(c)

\* [.,]\s*\d{2} at q: the position after it, or 0.
MoneyTail(s, q) ==
    IF q \in DOMAIN s /\ IsDecimalSep(s[q])
    THEN LET d == SkipSpaces(s, q + 1)
         IN  IF DigitAt(s, d) /\ DigitAt(s, d + 1) THEN d + 2 ELSE 0
    ELSE 0

\* (?:[.\s]\d{3})*[.,]\s*\d{2} at q: the positions after each way to match.
RECURSIVE MoneyRest(_, _)
MoneyRest(s, q) ==
    LET more == IF /\ q \in DOMAIN s
                   /\ IsGroupSep(s[q])
                   /\ DigitAt(s, q + 1) /\ DigitAt(s, q + 2) /\ DigitAt(s, q + 3)
                THEN MoneyRest(s, q + 4)
                ELSE << >>
        t == MoneyTail(s, q)
    IN  more \o (IF t # 0 THEN <<t>> ELSE << >>)

\* The whole expression at p with a leading run of n digits, then of n - 1
\* digits, down to one: \d{1,3} is greedy.
RECURSIVE MoneyFrom(_, _, _)
MoneyFrom(s, p, n) ==
    IF n = 0 THEN << >>
    ELSE (IF \A k \in 0..(n - 1) : DigitAt(s, p + k)
          THEN MoneyRest(s, p + n)
          ELSE << >>) \o MoneyFrom(s, p, n - 1)

\* The whole expression at p.
MoneyEndsAt(s, p) == MoneyFrom(s, p, 3)

\* _MONEY_RE.search(text): <<first, last>> of the leftmost match, or None.
MoneySearch(s) ==
    With({p \in DOMAIN s : MoneyEndsAt(s, p) # << >>}, LAMBDA starts :
        IF starts = {} THEN None
        ELSE With(CHOOSE x \in starts : \A y \in starts : x <= y, LAMBDA p :
                 <<p, Head(MoneyEndsAt(s, p)) - 1>>))

\* float(raw) in hundredths, raw being the match with " " and "." removed and
\* "," turned into ".": with a "," the digits after it are the two decimals;
\* without one every digit belongs to the integer part.
MoneyRawValue(raw) ==
    IF HasChar(raw, ",")
    THEN LET c == CHOOSE k \in DOMAIN raw : raw[k] = ","
         IN  100 * DigitsValue(Slice(raw, 1, c - 1))
               + DigitsValue(Slice(raw, c + 1, Len(raw)))
    ELSE 100 * DigitsValue(raw)

\* parse_money(text): Some(hundredths) of the first money match, or None.
parse_money(text) ==
    With(MoneySearch(text), LAMBDA m :
        IF m = None THEN None
        ELSE Some(MoneyRawValue(
                 RemoveChar(RemoveChar(SubSeq(text, m[1], m[2]), " "), "."))))

\* Amounts are hundredths, which round(x, 2) leaves as they are.
money_round(x) == x

\* re.fullmatch(r"-?\d{1,3}(?:[.\s]\d{3})*[.,]\s*\d{2}", s)
MoneyFullMatch(s) ==
    With(MoneyEndsAt(s, IF At(s, 1) = "-" THEN 2 ELSE 1), LAMBDA ends :
        \E k \in DOMAIN ends : ends[k] = Len(s) + 1)

\* _MONEY_RE.sub("", s, count=1)
MoneyRemoveFirst(s) ==
    With(MoneySearch(s), LAMBDA m :
        IF m = None THEN s
        ELSE Slice(s, 1, m[1] - 1) \o Slice(s, m[2] + 1, Len(s)))

\* The sign rule of every caller: negative iff the text holds a "-" once its
\* spaces are removed.
Signed(v, text) == IF HasChar(RemoveChar(text, " "), "-") THEN 0 - v ELSE v

(***************************************************************************)
(* _QTY_LINE_RE =                                                          *)
(*   ^\s*(\d+[.,]\d+)\s+(BUC|KG)\s*[xX]\s*(\d+[.,]\s*\d{2})\s*$  (IGNORECASE) *)
(* QtyMatch is None or <<qty_raw, unit, unit_price_raw>>.                   *)
(***************************************************************************)
QtyMatch(s) ==
    LET p0 == SkipSpaces(s, 1)
        p1 == SkipDigits(s, p0)
        p2 == SkipDigits(s, p1 + 1)
        p3 == SkipSpaces(s, p2)
        isBuc == _upper_ascii(Slice(s, p3, p3 + 2)) = <<"B", "U", "C">>
        isKg == _upper_ascii(Slice(s, p3, p3 + 1)) = <<"K", "G">>
        p4 == IF isBuc THEN p3 + 3 ELSE p3 + 2
        p5 == SkipSpaces(s, p4)
        p6 == SkipSpaces(s, p5 + 1)
        p7 == SkipDigits(s, p6)
        p8 == SkipSpaces(s, p7 + 1)
        p9 == SkipSpaces(s, p8 + 2)
    IN  IF /\ p1 > p0 /\ IsDecimalSep(At(s, p1))
           /\ p2 > p1 + 1
           /\ p3 > p2
           /\ (isBuc \/ isKg)
           /\ UpperChar(At(s, p5)) = "X"
           /\ p7 > p6 /\ IsDecimalSep(At(s, p7))
           /\ DigitAt(s, p8) /\ DigitAt(s, p8 + 1)
           /\ p9 = Len(s) + 1
        THEN <<SubSeq(s, p0, p2 - 1),
               IF isBuc THEN <<"B", "U", "C">> ELSE <<"K", "G">>,
               SubSeq(s, p6, p8 + 1)>>
        ELSE None

\* re.search(r"\b([ABD])\b\s*$", ru): the letter, or None.
VatSuffix(ru) ==
    LET t == RStrip(ru)
        n == Len(t)
    IN  IF /\ n >= 1
           /\ t[n] \in {"A", "B", "D"}
           /\ (n = 1 \/ ~IsWordChar(t[n - 1]))
        THEN Some(t[n])
        ELSE None

(***************************************************************************)
(* Tokenizer predicates of parse_items                                     *)
(***************************************************************************)
u(s) == _upper_ascii(_norm_spaces(s))

StartsWithAny(s, prefixes) == \E t \in prefixes : StartsWith(s, t)

is_totals_marker(s) ==
    StartsWithAny(u(s), {<<"S", "U", "B", "T", "O", "T", "A", "L">>,
                         <<"T", "O", "T", "A", "L">>,
                         <<"T", "O", "T", "A", "L", " ", "T", "V", "A">>})

is_discount_marker(s) == StartsWith(u(s), <<"D", "I", "S", "C", "O", "U", "N", "T">>)

is_discount_prelude(s) ==
    LET uu == u(s)
        reducere == <<"R", "E", "D", "U", "C", "E", "R", "E">>
    IN  \/ StartsWith(uu, reducere)
        \/ /\ Contains(uu, reducere)
           /\ Contains(uu, <<"L", "I", "D", "L">>)
           /\ Contains(uu, <<"P", "L", "U", "S">>)

FooterWords == {<<"C", "A", "R", "D">>, <<"L", "E", "I">>, <<"A">>, <<"B">>, <<"D">>}
FooterPrefixes ==
    {<<"T", "V", "A">>, <<"T", "R", "A", "N", "Z", "A", "C">>, <<"C", "A", "S", "A">>,
     <<"M", "G">>, <<"D", "A", "T", "A">>, <<"T", "Z", "/", "P", "O", "S">>,
     <<"O", "R", "A">>, <<"B", "O", "N">>,
     <<"M", "U", "L", "T", "U", "M", "E", "S", "C">>,
     <<"A", "C", "H", "I", "Z", "I", "T">>, <<"D", "E", "T", "A", "L", "I", "I">>}

is_footer_noise(s) ==
    LET uu == u(s)
    IN  \/ uu = << >>
        \/ uu \in FooterWords
        \/ StartsWithAny(uu, FooterPrefixes)

is_returnare_garantie(line) ==
    LET uu == _upper_ascii(line)
    IN  /\ Contains(uu, <<"R", "E", "T", "U", "R", "N", "A", "R", "E">>)
        /\ Contains(uu, <<"G", "A", "R", "A", "N", "T">>)

\* _line_is_vat_only: Some(letter) or None.
_line_is_vat_only(s) ==
    LET ss == _norm_spaces(s)
        uu == u(ss)
    IN  IF ss \in {<<"A">>, <<"B">>, <<"D">>} THEN Some(ss[1])
        ELSE IF uu \in {<<"A">>, <<"B">>, <<"D">>} /\ Len(uu) = 1 THEN Some(uu[1])
        ELSE None

\* [0-9.,\-\s]
IsAmountChar(c) == IsDigit(c) \/ IsDecimalSep(c) \/ c = "-" \/ IsSpace(c)

\* _looks_like_money_noise: a money match and nothing but [0-9.,\-\s].
_looks_like_money_noise(s) ==
    With(_norm_spaces(s), LAMBDA ss :
    With(u(ss), LAMBDA uu :
        /\ parse_money(ss) # None
        /\ uu # << >>
        /\ \A k \in DOMAIN uu : IsAmountChar(uu[k])))

\* _parse_money_vat_inline: None or <<value, vat, name_part>>.
\* re.sub(r"\b[ABD]\b\s*$", "", name_part, flags=re.IGNORECASE)
VatRemoved(name_part) ==
    IF VatSuffix(_upper_ascii(name_part)) # None
    THEN Slice(name_part, 1, Len(RStrip(name_part)) - 1)
    ELSE name_part

_parse_money_vat_inline(s) ==
    With(_norm_spaces(s), LAMBDA ss :
    With(parse_money(ss), LAMBDA mm :
    With(VatSuffix(u(ss)), LAMBDA mvat :
        IF mm = None \/ mvat = None THEN None
        ELSE <<money_round(Signed(Val(mm), ss)), Val(mvat),
               Strip(VatRemoved(Strip(MoneyRemoveFirst(ss))))>>)))

\* _parse_money_only: None or Some(value).
\* re.sub(r"^[^0-9\-]+", "", uu)
LeadingNoiseRemoved(uu) ==
    With(CHOOSE p \in 1..(Len(uu) + 1) :
             /\ \A k \in 1..(p - 1) : ~(IsDigit(uu[k]) \/ uu[k] = "-")
             /\ (p = Len(uu) + 1 \/ IsDigit(uu[p]) \/ uu[p] = "-"),
         LAMBDA lead : Slice(uu, lead, Len(uu)))

\* re.sub(r"[^0-9.,\-\s]+$", "", uu2)
TrailingNoiseRemoved(uu) ==
    With(CHOOSE p \in 0..Len(uu) :
             /\ \A k \in (p + 1)..Len(uu) : ~IsAmountChar(uu[k])
             /\ (p = 0 \/ IsAmountChar(uu[p])),
         LAMBDA trail : Slice(uu, 1, trail))

_parse_money_only(s) ==
    With(_norm_spaces(s), LAMBDA ss :
    With(parse_money(ss), LAMBDA mm :
    With(_upper_ascii(ss), LAMBDA uu :
        IF mm = None THEN None
        ELSE IF \E k \in DOMAIN uu : IsUpper(uu[k]) THEN None
        ELSE IF ~MoneyFullMatch(Strip(TrailingNoiseRemoved(LeadingNoiseRemoved(uu))))
        THEN None
        ELSE Some(money_round(Signed(Val(mm), ss))))))

_vat_from_raw_token(raw) == VatSuffix(_upper_ascii(_norm_spaces(raw)))

(***************************************************************************)
(* The vocabulary of receipt lines.  Each line is normalized text, as      *)
(* process_one hands it to the parser.                                     *)
(***************************************************************************)
\* 1,000 BUC x 7,99
L_Qty == <<"1", ",", "0", "0", "0", " ", "B", "U", "C", " ", "x", " ", "7", ",", "9", "9">>
\* Lapte
L_Name == <<"L", "a", "p", "t", "e">>
\* 7,99 B
L_PaidVat == <<"7", ",", "9", "9", " ", "B">>
\* 7,99
L_Paid == <<"7", ",", "9", "9">>
\* B
L_VatB == <<"B">>
\* -2,50 B
L_NegVat == <<"-", "2", ",", "5", "0", " ", "B">>
\* LEI
L_Lei == <<"L", "E", "I">>
\* TOTAL
L_Total == <<"T", "O", "T", "A", "L">>
\* -8,50
L_Neg == <<"-", "8", ",", "5", "0">>
\* D
L_VatD == <<"D">>
\* -8,50 D
L_NegD == <<"-", "8", ",", "5", "0", " ", "D">>
\* Lapte 7,99 B
L_NamePaid == <<"L", "a", "p", "t", "e", " ", "7", ",", "9", "9", " ", "B">>
\* TOTAL -2,50 B
L_TotalNeg == <<"T", "O", "T", "A", "L", " ", "-", "2", ",", "5", "0", " ", "B">>
\* TOTAL REDUCERE LIDL PLUS
L_TotalPrelude == <<"T", "O", "T", "A", "L", " ", "R", "E", "D", "U", "C", "E", "R", "E", " ", "L", "I", "D", "L", " ", "P", "L", "U", "S">>
\* REDUCERE 25%
L_Prelude == <<"R", "E", "D", "U", "C", "E", "R", "E", " ", "2", "5", "%">>
\* DISCOUNT
L_Discount == <<"D", "I", "S", "C", "O", "U", "N", "T">>
\* Returnare garantie
L_Returnare == <<"R", "e", "t", "u", "r", "n", "a", "r", "e", " ", "g", "a", "r", "a", "n", "t", "i", "e">>
\* 10,00
L_Paid2 == <<"1", "0", ",", "0", "0">>
\* 2,000 BUC x 3,50
L_S3Qty == <<"2", ",", "0", "0", "0", " ", "B", "U", "C", " ", "x", " ", "3", ",", "5", "0">>
\* Paine
L_S3Name == <<"P", "a", "i", "n", "e">>
\* 7,00
L_S3Paid == <<"7", ",", "0", "0">>
\* 1,000 BUC x 10,00
L_S4Qty == <<"1", ",", "0", "0", "0", " ", "B", "U", "C", " ", "x", " ", "1", "0", ",", "0", "0">>
\* Sirop
L_S4Name == <<"S", "i", "r", "o", "p">>
\* 10,00 B
L_S4Paid == <<"1", "0", ",", "0", "0", " ", "B">>
\* 2,50-B
L_S4Neg == <<"2", ",", "5", "0", "-", "B">>
\* 7,99 D
L_PaidD == <<"7", ",", "9", "9", " ", "D">>
\* MG 2 KG X
L_StopDesc == <<"M", "G", " ", "2", " ", "K", "G", " ", "X">>

Vocab ==
    <<L_Qty, L_Name, L_PaidVat, L_Paid, L_VatB,
      L_NegVat, L_Lei, L_Total, L_Neg, L_VatD,
      L_NegD, L_NamePaid, L_TotalNeg, L_TotalPrelude, L_Prelude,
      L_Discount, L_Returnare, L_Paid2, L_S3Qty, L_S3Name,
      L_S3Paid, L_S4Qty, L_S4Name, L_S4Paid, L_S4Neg,
      L_PaidD, L_StopDesc>>
VocabIds == DOMAIN Vocab
Id(text) == CHOOSE v \in VocabIds : Vocab[v] = text
Text(v) == Vocab[v]

(***************************************************************************)
(* parse_quantity: the first \d+[.,]\d+ of the text as a decimal number,   *)
(* held as <<integer part, decimals without trailing zeros>> so that two   *)
(* quantities are equal exactly when the floats are.                       *)
(***************************************************************************)
RECURSIVE StripTrailingZeros(_)
StripTrailingZeros(s) ==
    IF s # << >> /\ s[Len(s)] = "0"
    THEN StripTrailingZeros(Slice(s, 1, Len(s) - 1))
    ELSE s

parse_quantity(text) ==
    LET ok(p) == /\ DigitAt(text, p)
                 /\ IsDecimalSep(At(text, SkipDigits(text, p)))
                 /\ DigitAt(text, SkipDigits(text, p) + 1)
        starts == {p \in DOMAIN text : ok(p)}
    IN  IF starts = {} THEN None
        ELSE LET p == CHOOSE x \in starts : \A y \in starts : x <= y
                 e == SkipDigits(text, p)
             IN  Some(<<DigitsValue(SubSeq(text, p, e - 1)),
                        StripTrailingZeros(
                            SubSeq(text, e + 1, SkipDigits(text, e + 1) - 1))>>)

(***************************************************************************)
(* What the tokenizers say of each line of the vocabulary, computed once.  *)
(* cand is _norm_spaces(line), on which parse_items applies them.          *)
(***************************************************************************)
StopPrefixes ==
    {<<"T", "R", "A", "N", "Z", "A", "C">>, <<"C", "A", "S", "A">>, <<"M", "G">>,
     <<"D", "A", "T", "A">>, <<"T", "Z", "/", "P", "O", "S">>, <<"O", "R", "A">>,
     <<"B", "O", "N">>, <<"M", "U", "L", "T", "U", "M", "E", "S", "C">>,
     <<"A", "C", "H", "I", "Z", "I", "T">>, <<"D", "E", "T", "A", "L", "I", "I">>}

Classify(line) ==
    With(_norm_spaces(line), LAMBDA cand :
    With(_parse_money_vat_inline(cand), LAMBDA mv :
        [cand      |-> cand,
         upper     |-> _upper_ascii(line),
         qty       |-> QtyMatch(cand),
         totals    |-> is_totals_marker(cand),
         footer    |-> is_footer_noise(cand),
         prelude   |-> is_discount_prelude(cand),
         marker    |-> is_discount_marker(cand),
         vat_only  |-> _line_is_vat_only(cand),
         returnare |-> is_returnare_garantie(cand),
         inline    |-> mv,
         \* name_part and not _looks_like_money_noise(name_part)
         name_part_ok |-> mv # None /\ mv[3] # << >> /\ ~_looks_like_money_noise(mv[3]),
         money_only |-> _parse_money_only(cand),
         noise     |-> _looks_like_money_noise(cand),
         money     |-> parse_money(cand),
         minus     |-> HasChar(RemoveChar(cand, " "), "-"),
         raw_vat   |-> _vat_from_raw_token(line),
         \* ("BUC" in uu or "KG" in uu) and (" X " in f" {uu} " or " X" in uu)
         descriptor |-> LET uu == u(line)
                        IN  /\ \/ Contains(uu, <<"B", "U", "C">>)
                               \/ Contains(uu, <<"K", "G">>)
                            /\ \/ Contains(<<" ">> \o uu \o <<" ">>, <<" ", "X", " ">>)
                               \/ Contains(uu, <<" ", "X">>),
         stop      |-> StartsWithAny(_upper_ascii(line), StopPrefixes),
         is_lei    |-> _upper_ascii(line) = <<"L", "E", "I">>]))

RECURSIVE ClassifyUpTo(_)
ClassifyUpTo(k) ==
    IF k = 0 THEN << >>
    ELSE Append(ClassifyUpTo(k - 1), [id |-> k] @@ Classify(Vocab[k]))

\* Tok[v] is Classify(Vocab[v]) with id v; a tuple, so that it is computed once.
Tok == ClassifyUpTo(Len(Vocab))

\* A receipt of vocabulary indices as the lines the parser works on, each
\* with what the tokenizers say of it.
Tokens(w) == [p \in DOMAIN w |-> Tok[w[p]]]

\* The line at position p of a receipt (1-based), as classified.
Line(ls, p) == ls[p]

IsQtyLine(ls, p) == Line(ls, p).qty # None

\* A split parse that reports no consumed line.
_parse_money_then_vat_no_advance(ls, idx) ==
    IF idx > Len(ls) \/ idx + 1 > Len(ls) THEN None
    ELSE LET a == Line(ls, idx)
             b == Line(ls, idx + 1)
         IN  IF a.money # None /\ b.vat_only # None
             THEN <<money_round(IF a.minus THEN 0 - Val(a.money) ELSE Val(a.money)),
                    Val(b.vat_only), 0>>
             ELSE IF a.vat_only # None /\ b.money # None
             THEN <<money_round(IF b.minus THEN 0 - Val(b.money) ELSE Val(b.money)),
                    Val(a.vat_only), 0>>
             ELSE None

\* _parse_money_then_vat(lines_, idx): None or <<value, vat, consumed_lines>>.
_parse_money_then_vat(ls, idx) ==
    IF idx > Len(ls) \/ idx + 1 > Len(ls) THEN None
    ELSE LET a == Line(ls, idx)
             b == Line(ls, idx + 1)
         IN  IF a.money # None /\ b.vat_only # None
             THEN <<money_round(IF a.minus THEN 0 - Val(a.money) ELSE Val(a.money)),
                    Val(b.vat_only), 2>>
             ELSE IF a.vat_only # None /\ b.money # None
             THEN <<money_round(IF b.minus THEN 0 - Val(b.money) ELSE Val(b.money)),
                    Val(a.vat_only), 2>>
             ELSE None

Abs(x) == IF x < 0 THEN 0 - x ELSE x
Max(a, b) == IF a >= b THEN a ELSE b

\* _take_negative_amount(k_idx): None or <<abs_value, raw_text, consumed, vat>>,
\* vat being None or Some(letter).
_take_negative_amount(ls, k_idx) ==
    LET line0 == Line(ls, k_idx)
        ni == line0.inline
        mo == line0.money_only
        ns == _parse_money_then_vat(ls, k_idx)
    IN  IF ni # None /\ ni[1] < 0
        THEN <<Abs(ni[1]), line0.cand, 1, Some(ni[2])>>
        ELSE IF mo # None /\ Val(mo) < 0
        THEN <<Abs(Val(mo)), line0.cand, 1, None>>
        ELSE IF ns # None /\ ns[1] < 0
        THEN <<Abs(ns[1]), line0.cand \o <<" ">> \o Line(ls, k_idx + 1).cand,
               ns[3], Some(ns[2])>>
        ELSE None

(***************************************************************************)
(* Pattern D: the optional discount block after a closed item.             *)
(* The result is [k, discount, discount_raw] as the block leaves them,     *)
(* and pos, the position of the line the attached amount was read from     *)
(* (0 when nothing is attached), which the parser itself does not keep.    *)
(***************************************************************************)
\* A skip that also passes qty lines.
RECURSIVE SkipPreludes_past_qty(_, _)
SkipPreludes_past_qty(ls, k) ==
    IF k <= Len(ls) /\ (Line(ls, k).prelude \/ Line(ls, k).qty # None)
    THEN SkipPreludes_past_qty(ls, k + 1)
    ELSE k

RECURSIVE SkipPreludes(_, _)
SkipPreludes(ls, k) ==
    IF k <= Len(ls) /\ Line(ls, k).prelude THEN SkipPreludes(ls, k + 1) ELSE k

\* VAT=D indicates SGR refund, not an item discount.
IsSgrVat(disc_vat) == disc_vat = Some("D")

PatternD(ls, j0) ==
    LET k1 == SkipPreludes(ls, j0)
        k2 == IF k1 <= Len(ls) /\ Line(ls, k1).marker THEN k1 + 1 ELSE k1
        taken == IF k2 <= Len(ls) THEN _take_negative_amount(ls, k2) ELSE None
        \* Of the two lines of a split amount, the one that holds the amount.
        amountAt == IF taken[3] = 2 /\ Line(ls, k2).vat_only # None /\ ~Line(ls, k2).minus
                    THEN k2 + 1
                    ELSE k2
    IN  IF taken = None
        THEN [k |-> k2, discount |-> 0, discount_raw |-> None, pos |-> 0]
        ELSE IF IsSgrVat(taken[4])
        THEN [k |-> k2 + taken[3], discount |-> 0, discount_raw |-> None, pos |-> 0]
        ELSE [k |-> k2 + taken[3], discount |-> taken[1],
              discount_raw |-> Some(taken[2]), pos |-> amountAt]

(***************************************************************************)
(* _find_lei_section and _extract_amount_stream_from_lei.  A token is      *)
(* [v, raw, pos]: the signed amount, the line it was read from and, for    *)
(* reference, the position of that line.                                   *)
(***************************************************************************)
_find_lei_section(ls) ==
    LET hits == {p \in DOMAIN ls : Line(ls, p).is_lei}
    IN  IF hits = {} THEN 0 ELSE CHOOSE p \in hits : \A q \in hits : p <= q

RECURSIVE LeiStreamFrom(_, _)
LeiStreamFrom(ls, p) ==
    IF p > Len(ls) THEN << >>
    ELSE LET t == Line(ls, p)
         IN  IF t.qty # None THEN LeiStreamFrom(ls, p + 1)
             ELSE IF t.descriptor THEN LeiStreamFrom(ls, p + 1)
             ELSE IF t.stop THEN << >>
             ELSE IF t.money = None THEN LeiStreamFrom(ls, p + 1)
             ELSE <<[v   |-> money_round(IF t.minus THEN 0 - Abs(Val(t.money))
                                                    ELSE Val(t.money)),
                     raw |-> ls[p],
                     pos |-> p]>> \o LeiStreamFrom(ls, p + 1)

\* A stream without the early return: with no LEI line, start + 1 is the
\* first line and the whole receipt is read as the stream.
_extract_amount_stream_from_lei_no_return(ls) ==
    LeiStreamFrom(ls, _find_lei_section(ls) + 1)

_extract_amount_stream_from_lei(ls) ==
    LET start == _find_lei_section(ls)
    IN  IF start = 0 THEN << >> ELSE LeiStreamFrom(ls, start + 1)

\* extract_totals: <<total, subtotal>>, each None or Some(amount).
Positives(lei) == SelectSeq(lei, LAMBDA t : t.v > 0)

\* Totals read from the front of the positives instead of the back.
extract_totals_first(ls) ==
    LET positives == Positives(_extract_amount_stream_from_lei(ls))
        n == Len(positives)
    IN  <<IF n >= 1 THEN Some(positives[1].v) ELSE None,
          IF n >= 2 THEN Some(positives[2].v) ELSE None>>

extract_totals(ls) ==
    LET positives == Positives(_extract_amount_stream_from_lei(ls))
        n == Len(positives)
    IN  <<IF n >= 1 THEN Some(positives[n].v) ELSE None,
          IF n >= 2 THEN Some(positives[n - 1].v) ELSE None>>

(***************************************************************************)
(* SGR recovered: the end of parse_items.                                  *)
(***************************************************************************)
\* A first pass that takes the first negative token, whatever its letter.
SgrFromLei_any_negative(lei) ==
    LET hits == {t \in DOMAIN lei : lei[t].v < 0}
    IN  IF hits = {} THEN 0
        ELSE Abs(lei[CHOOSE t \in hits : \A x \in hits : t <= x].v)

SgrFromLei(lei) ==
    LET hits == {t \in DOMAIN lei : lei[t].v < 0 /\ lei[t].raw.raw_vat = Some("D")}
    IN  IF hits = {} THEN 0
        ELSE Abs(lei[CHOOSE t \in hits : \A x \in hits : t <= x].v)

SgrFromSplit(ls) ==
    LET neg(idx) == /\ Line(ls, idx + 1).cand = <<"D">>
                    /\ Line(ls, idx).money # None
                    /\ Line(ls, idx).minus
                    /\ Val(Line(ls, idx).money) > 0
        hits == {idx \in 1..(Len(ls) - 1) : neg(idx)}
    IN  IF hits = {} THEN 0
        ELSE Val(Line(ls, CHOOSE x \in hits : \A y \in hits : x <= y).money)

SgrRecovered(ls) ==
    LET first == SgrFromLei(_extract_amount_stream_from_lei(ls))
    IN  money_round(IF first = 0 THEN SgrFromSplit(ls) ELSE first)

(***************************************************************************)
(* attach_discounts_from_lei, one item at a time.                          *)
(***************************************************************************)
\* A search that starts at the head of the stream, whatever the cursor.
FindPaidToken_from_start(lei, ti0, paid_v) ==
    LET hits == {t \in 1..Len(lei) : lei[t].v > 0 /\ money_round(lei[t].v) = paid_v}
    IN  IF hits = {} THEN 0 ELSE CHOOSE t \in hits : \A x \in hits : t <= x

\* The first token at or after ti that is positive and equals paid_v, or 0.
FindPaidToken(lei, ti0, paid_v) ==
    LET hits == {t \in ti0..Len(lei) : lei[t].v > 0 /\ money_round(lei[t].v) = paid_v}
    IN  IF hits = {} THEN 0 ELSE CHOOSE t \in hits : \A x \in hits : t <= x

\* The candidate discount at t + 1 is attached unless its VAT letter is D.
IsDiscountToken(tok) == tok.v < 0 /\ tok.raw.raw_vat # Some("D")

\* A loop body that adds the token to the discount the item already has.
AttachOne_adds(it, lei, ti0) ==
    IF it.paid_amount = None THEN [it |-> it, ti |-> ti0, added |-> 0]
    ELSE LET t == FindPaidToken(lei, ti0, money_round(Val(it.paid_amount)))
         IN  IF t = 0 THEN [it |-> it, ti |-> Max(ti0, Len(lei) + 1), added |-> 0]
             ELSE IF t + 1 <= Len(lei) /\ IsDiscountToken(lei[t + 1])
             THEN [it |-> [it EXCEPT !.discount = it.discount + money_round(Abs(lei[t + 1].v)),
                                     !.discount_raw = Some(lei[t + 1].raw.cand),
                                     !.discount_by = "lei",
                                     !.discount_pos = lei[t + 1].pos],
                   ti |-> t + 2,
                   added |-> Abs(lei[t + 1].v)]
             ELSE [it |-> it, ti |-> t + 1, added |-> 0]

\* A loop body that leaves the cursor where it was when no token matches.
AttachOne_keeps_cursor(it, lei, ti0) ==
    IF it.paid_amount = None THEN [it |-> it, ti |-> ti0, added |-> 0]
    ELSE LET t == FindPaidToken(lei, ti0, money_round(Val(it.paid_amount)))
         IN  IF t = 0 THEN [it |-> it, ti |-> ti0, added |-> 0]
             ELSE IF t + 1 <= Len(lei) /\ IsDiscountToken(lei[t + 1])
             THEN [it |-> [it EXCEPT !.discount = money_round(Abs(lei[t + 1].v)),
                                     !.discount_raw = Some(lei[t + 1].raw.cand),
                                     !.discount_by = "lei",
                                     !.discount_pos = lei[t + 1].pos],
                   ti |-> t + 2,
                   added |-> Abs(lei[t + 1].v)]
             ELSE [it |-> it, ti |-> t + 1, added |-> 0]

\* What the loop body does for item it with the cursor at ti:
\* [it, ti, added], added being the amount added to discount_total.
AttachOne(it, lei, ti0) ==
    IF it.paid_amount = None THEN [it |-> it, ti |-> ti0, added |-> 0]
    ELSE LET t == FindPaidToken(lei, ti0, money_round(Val(it.paid_amount)))
         IN  IF t = 0 THEN [it |-> it, ti |-> Max(ti0, Len(lei) + 1), added |-> 0]
             ELSE IF t + 1 <= Len(lei) /\ IsDiscountToken(lei[t + 1])
             THEN [it |-> [it EXCEPT !.discount = money_round(Abs(lei[t + 1].v)),
                                     !.discount_raw = Some(lei[t + 1].raw.cand),
                                     !.discount_by = "lei",
                                     !.discount_pos = lei[t + 1].pos],
                   ti |-> t + 2,
                   added |-> Abs(lei[t + 1].v)]
             ELSE [it |-> it, ti |-> t + 1, added |-> 0]

(***************************************************************************)
(* Post-processing of process_one                                          *)
(***************************************************************************)
_needs_review_from_item(it) == it.paid_amount = None

NameStr(name) == IF name = None THEN << >> ELSE Val(name)

SameCore(prev, it) ==
    /\ _norm_spaces(NameStr(prev.name)) = _norm_spaces(NameStr(it.name))
    /\ prev.unit = it.unit
    /\ prev.quantity = it.quantity
    /\ prev.unit_price = it.unit_price

RECURSIVE DedupeInto(_, _)
DedupeInto(out, rest) ==
    IF rest = << >> THEN out
    ELSE LET it == Head(rest)
             prev == out[Len(out)]
         IN  IF out # << >> /\ SameCore(prev, it)
                /\ prev.paid_amount = None /\ it.paid_amount # None
             THEN DedupeInto([out EXCEPT ![Len(out)] = it], Tail(rest))
             ELSE IF out # << >> /\ SameCore(prev, it)
                     /\ it.paid_amount = None /\ prev.paid_amount # None
             THEN DedupeInto(out, Tail(rest))
             ELSE DedupeInto(Append(out, it), Tail(rest))

\* A dedupe that returns its output newest first.
dedupe_incomplete_duplicates_reversed(its) ==
    LET out == DedupeInto(<< >>, its)
    IN  [x \in DOMAIN out |-> out[Len(out) + 1 - x]]

dedupe_incomplete_duplicates(its) == DedupeInto(<< >>, its)

\* The status and error of the record.
NoTotalError == "Could not extract TOTAL (missing LEI stream or parse failure)"

\* A status that looks at the warnings before it looks at the total.
StatusOf_warn_first(tot, warns) ==
    IF warns # << >> THEN "warn"
    ELSE IF tot = None THEN "fail"
    ELSE "ok"

StatusOf(tot, warns) ==
    IF tot = None THEN "fail"
    ELSE IF warns # << >> THEN "warn"
    ELSE "ok"

ErrorOf(tot) == IF tot = None THEN Some(NoTotalError) ELSE None

(***************************************************************************)
(* Inputs.  A receipt is a sequence of vocabulary lines: every sequence of *)
(* at most MaxLines everyday lines, every receipt that opens with one      *)
(* complete item and goes on with at most MaxTail lines of the discount    *)
(* and refund kind, and the scenarios S3 and S4 of the specification.      *)
(***************************************************************************)
MaxLines == 4
MaxTail == 3

SeqsUpTo(S, n) == UNION {[1..m -> S] : m \in 0..n}

FreeIds == {Id(t) : t \in {L_Qty, L_Name, L_PaidVat, L_Paid, L_VatB, L_NegVat,
                           L_Lei, L_Total, L_Paid2, L_Returnare}}
TailIds == {Id(t) : t \in {L_Neg, L_VatD, L_NegD, L_TotalNeg, L_TotalPrelude,
                           L_Lei, L_Paid, L_Qty}}

Ids(texts) == [k \in DOMAIN texts |-> Id(texts[k])]

S3 == Ids(<<L_S3Qty, L_S3Name, L_VatB, L_S3Paid>>)
S4 == Ids(<<L_S4Qty, L_S4Name, L_S4Paid, L_Prelude, L_Discount, L_S4Neg>>)
Scenarios ==
    {S3, S4,
     Ids(<<L_S4Qty, L_S4Name, L_S4Paid, L_Discount, L_S4Neg>>),
     Ids(<<L_S4Qty, L_S4Name, L_S4Paid, L_S4Neg>>),
     Ids(<<L_S4Qty, L_S4Name, L_S4Paid, L_Prelude, L_Prelude, L_S4Neg>>),
     Ids(<<L_Qty, L_Returnare, L_Qty, L_Name, L_PaidVat, L_Lei, L_Paid>>),
     Ids(<<L_S4Qty, L_S4Name, L_S4Paid, L_TotalNeg, L_Lei, L_Paid2, L_NegVat>>),
     Ids(<<L_Qty, L_NamePaid, L_Lei, L_Paid, L_Neg, L_VatD>>),
     Ids(<<L_Qty, L_NamePaid, L_TotalNeg, L_VatD, L_Lei, L_Paid, L_NegD>>),
     Ids(<<L_Qty, L_PaidVat, L_Returnare, L_Name, L_Qty, L_Name, L_PaidVat>>),
     Ids(<<L_Qty, L_Name, L_PaidD>>),
     Ids(<<L_Qty, L_Name, L_Paid, L_VatD>>),
     Ids(<<L_Qty, L_Name, L_PaidVat, L_TotalNeg>>),
     Ids(<<L_Qty, L_PaidVat, L_Name, L_TotalNeg>>),
     Ids(<<L_Qty, L_PaidVat, L_Name, L_TotalPrelude, L_Qty, L_NamePaid>>),
     Ids(<<L_Qty, L_NamePaid, L_Qty, L_NamePaid, L_Lei, L_Paid, L_NegVat>>),
     Ids(<<L_Qty, L_NamePaid, L_Lei, L_Paid, L_StopDesc, L_NegVat>>),
     Ids(<<L_Qty, L_NamePaid, L_Lei, L_Paid, L_Qty, L_NegVat, L_Total, L_Paid2>>),
     Ids(<<L_S4Qty, L_S4Name, L_S4Paid, L_Qty, L_NamePaid, L_Lei, L_Paid, L_NegVat>>)}

Inputs ==
    SeqsUpTo(FreeIds, MaxLines)
      \cup {Ids(<<L_Qty, L_NamePaid>>) \o w : w \in SeqsUpTo(TailIds, MaxTail)}
      \cup Scenarios

(***************************************************************************)
(* State: the locals of process_one and of the functions it calls.         *)
(***************************************************************************)
VARIABLES
    lines,          \* the normalized OCR lines, classified
    pc,             \* where process_one is
    total, subtotal,
    i, j,           \* parse_items: outer and inner index (1-based)
    cur_name, cur_paid, cur_paid_raw, cur_vat, pending_vat,
    items, warnings, sgr_recovered,
    lei_tokens, ti,
    it_idx,         \* attach_discounts_from_lei: the item the loop is at
    discount_total,
    status, error,
    sgr_charge,
    money_text,     \* parse_money on its own: the text it is given
    money_value,    \* and what it returned
    ts_lines,       \* extract_timestamp on its own: the lines it is given,
    ts_idx,         \* the line its loop is at,
    date_s, time_s, \* its locals
    timestamp,      \* and what it returned
    dd_items,       \* dedupe_incomplete_duplicates on its own: the items it is given,
    dd_out,         \* what it returned
    dd_again,       \* and what it returned when given dd_out
    debug,          \* process_one: its debug argument
    _PARSE_DEBUG,   \* the module globals _PARSE_DEBUG
    _PARSE_DEBUG_LINES, \* and _PARSE_DEBUG_LINES
    dbg,            \* process_one: the debug trace it returns
    run,            \* which call of process_one in this process this is
    first_return,   \* what the first call returned
    inv_pc,         \* two calls of process_one at once: where each is,
    inv_debug,      \* its debug argument,
    inv_todo,       \* the _pd calls its parse has still to make,
    inv_items,      \* what its parse has built so far
    inv_dbg,        \* and the debug trace it returns
    dry_run, no_db, move_files, write_json_files, \* process_image: its flags,
    config_ok,      \* whether the Supabase url, key and owner_id are all set,
    client_ok,      \* whether db_client is not None,
    attempts,       \* how many times the parser has been called,
    last_exc,       \* the exception of the last attempt if it raised,
    parsed,         \* the record or the failure payload,
    db_calls,       \* the calls made on db_client, in order,
    db_result,
    outcome,
    moved_to,       \* where the image was moved
    written,        \* the JSON artifacts written
    file_result,    \* and what process_image returned
    images,         \* process_store: the images of the inbox, in order,
    img_idx,        \* the image the loop stands on,
    results, metrics, db_errors, run_status,
    exit_code,      \* what process_store returned
    receipts,       \* the rows of the receipts table
    item_rows,      \* the rows of the receipt_items table
    w_pc, w_seen, w_result \* two workers in upsert_receipt: position, what
                    \* receipt_exists answered, and the DbResult

vars == <<lines, pc, total, subtotal, i, j, cur_name, cur_paid, cur_paid_raw,
          cur_vat, pending_vat, items, warnings, sgr_recovered, lei_tokens, ti,
          it_idx, discount_total, status, error, sgr_charge, money_text,
          money_value, ts_lines, ts_idx, date_s, time_s, timestamp,
          dd_items, dd_out, dd_again, debug, _PARSE_DEBUG, _PARSE_DEBUG_LINES, dbg,
          run, first_return, inv_pc, inv_debug, inv_todo, inv_items, inv_dbg,
          dry_run, no_db, move_files, write_json_files, config_ok, client_ok,
          attempts, last_exc, parsed, db_calls, db_result, outcome, moved_to,
          written, file_result, images, img_idx, results, metrics, db_errors,
          run_status, exit_code, receipts, item_rows, w_pc, w_seen, w_result>>

dedupeVars == <<dd_items, dd_out, dd_again>>
invVars == <<inv_pc, inv_debug, inv_todo, inv_items, inv_dbg>>
flagVars == <<dry_run, no_db, move_files, write_json_files, config_ok, client_ok>>
ingestVars == <<flagVars, attempts, last_exc, parsed, db_calls, db_result, outcome,
                moved_to, written, file_result>>
tableVars == <<receipts, item_rows>>
runnerVars == <<images, img_idx, results, metrics, db_errors, run_status, exit_code>>
workerVars == <<w_pc, w_seen, w_result>>
storeVars == <<tableVars, runnerVars, workerVars>>
sideVars == <<dedupeVars, invVars, ingestVars, storeVars>>
callVars == <<debug, run, first_return>>
debugVars == <<callVars, _PARSE_DEBUG, _PARSE_DEBUG_LINES, dbg>>
pureVars == <<money_text, money_value, ts_lines, ts_idx, date_s, time_s, timestamp,
              sideVars>>

\* The variables of the other specifications, at rest.
IdleDedupe == dd_items = << >> /\ dd_out = << >> /\ dd_again = << >>

IdleInv ==
    /\ inv_pc = << >> /\ inv_debug = << >> /\ inv_todo = << >>
    /\ inv_items = << >> /\ inv_dbg = << >>

IdleIngest ==
    /\ dry_run = FALSE /\ no_db = FALSE /\ move_files = FALSE
    /\ write_json_files = FALSE /\ config_ok = FALSE /\ client_ok = FALSE
    /\ attempts = 0 /\ last_exc = None /\ parsed = None
    /\ db_calls = << >> /\ db_result = None /\ outcome = None
    /\ moved_to = None /\ written = << >> /\ file_result = None

IdleRunner ==
    /\ images = << >> /\ img_idx = 1 /\ results = << >>
    /\ metrics = [success |-> 0, warn |-> 0, failed |-> 0, duplicates |-> 0]
    /\ db_errors = << >> /\ run_status = None /\ exit_code = None

IdleWorkers == w_pc = << >> /\ w_seen = << >> /\ w_result = << >>

IdleStore ==
    /\ receipts = << >> /\ item_rows = << >>
    /\ IdleRunner
    /\ IdleWorkers

IdleSide == IdleDedupe /\ IdleInv /\ IdleIngest /\ IdleStore

\* One call of process_one without debug in a process that has just loaded
\* the module: _PARSE_DEBUG: bool = False, _PARSE_DEBUG_LINES = [].
IdleDebug ==
    /\ debug = FALSE /\ run = 1 /\ first_return = None
    /\ _PARSE_DEBUG = FALSE /\ _PARSE_DEBUG_LINES = << >>
    /\ dbg = << >>
curVars == <<cur_name, cur_paid, cur_paid_raw, cur_vat, pending_vat>>
resultVars == <<total, subtotal, lei_tokens, ti, it_idx, discount_total, status, error,
                sgr_charge>>

Init ==
    /\ lines \in {Tokens(w) : w \in Inputs}
    /\ pc = "begin"
    /\ total = None /\ subtotal = None
    /\ i = 1 /\ j = 1
    /\ cur_name = None /\ cur_paid = None /\ cur_paid_raw = None
    /\ cur_vat = None /\ pending_vat = None
    /\ items = << >> /\ warnings = << >> /\ sgr_recovered = 0
    /\ lei_tokens = << >> /\ ti = 1 /\ it_idx = 1 /\ discount_total = 0
    /\ status = "ok" /\ error = None /\ sgr_charge = None
    /\ money_text = << >> /\ money_value = None
    /\ ts_lines = << >> /\ ts_idx = 1
    /\ date_s = None /\ time_s = None /\ timestamp = None
    /\ IdleSide
    /\ IdleDebug

\* An entry of the debug trace: its tag and the line it quotes.
DebugEntry(tag, text) == [tag |-> tag, line |-> text]

\* _pd(msg) once for each message, in order: what _PARSE_DEBUG_LINES holds after.
PdAll(msgs) == IF _PARSE_DEBUG THEN _PARSE_DEBUG_LINES \o msgs ELSE _PARSE_DEBUG_LINES

_pd(msg) == PdAll(<<msg>>)

\* process_one up to the OCR: the trace is opened and the two globals are set.
BeginProcessOne ==
    /\ pc = "begin"
    /\ dbg' = <<DebugEntry("[FILE]", << >>), DebugEntry("[OCR]", << >>)>>
    /\ _PARSE_DEBUG' = debug
    /\ _PARSE_DEBUG_LINES' = << >>
    /\ pc' = "totals"
    /\ UNCHANGED <<lines, pureVars, callVars, total, subtotal, i, j, curVars, items,
                   warnings, sgr_recovered, lei_tokens, ti, it_idx, discount_total,
                   status, error, sgr_charge>>

\* process_one: total, subtotal, total_tva = extract_totals(lines)
ExtractTotals ==
    /\ pc = "totals"
    /\ total' = extract_totals(lines)[1]
    /\ subtotal' = extract_totals(lines)[2]
    /\ pc' = "scan"
    /\ UNCHANGED <<lines, pureVars, debugVars, i, j, curVars, items, warnings, sgr_recovered,
                   lei_tokens, ti, it_idx, discount_total, status, error, sgr_charge>>

(***************************************************************************)
(* parse_items: one pass of the outer loop up to the start of collection.  *)
(***************************************************************************)
ScanLine ==
    /\ pc = "scan"
    /\ IF i > Len(lines) \/ Line(lines, i).totals
       THEN /\ pc' = "sgr"
            /\ UNCHANGED <<i, j, curVars>>
       ELSE IF ~IsQtyLine(lines, i)
       THEN /\ i' = i + 1
            /\ UNCHANGED <<pc, j, curVars>>
       ELSE /\ cur_name' = None /\ cur_paid' = None /\ cur_paid_raw' = None
            /\ cur_vat' = None
            /\ pending_vat' = None
            /\ j' = i + 1
            /\ pc' = "collect"
            /\ UNCHANGED i
    /\ UNCHANGED <<lines, pureVars, debugVars, items, warnings, sgr_recovered, resultVars>>

\* Only positive values are accepted as paid, and only once per anchor.
AcceptsPaid(val, paid) == val > 0 /\ paid = None

\* A skip that does not advance.
NextStop_stay(ls, p) == p

\* The first qty line or totals marker at or after p, or Len + 1.
RECURSIVE NextStop(_, _)
NextStop(ls, p) ==
    IF p <= Len(ls) /\ ~IsQtyLine(ls, p) /\ ~Line(ls, p).totals
    THEN NextStop(ls, p + 1)
    ELSE p

\* One pass of the inner collection loop.
CollectLine ==
    /\ pc = "collect"
    /\ LET cand == Line(lines, j)
           mv == cand.inline
           mv2 == _parse_money_then_vat(lines, j)
           mv3 == cand.money_only
       IN  IF j > Len(lines)
           THEN /\ pc' = "close"
                /\ UNCHANGED <<j, curVars, _PARSE_DEBUG_LINES>>
           ELSE IF cand.totals \/ cand.qty # None
           THEN /\ pc' = "close"
                /\ UNCHANGED <<j, curVars, _PARSE_DEBUG_LINES>>
           ELSE IF cand.footer
           THEN /\ j' = j + 1
                /\ UNCHANGED <<pc, curVars, _PARSE_DEBUG_LINES>>
           ELSE IF cand.prelude \/ cand.marker
           THEN /\ j' = j + 1
                /\ UNCHANGED <<pc, curVars, _PARSE_DEBUG_LINES>>
           ELSE IF cand.vat_only # None
           THEN /\ pending_vat' = cand.vat_only
                /\ _PARSE_DEBUG_LINES' = _pd(DebugEntry("[vat]", cand.cand))
                /\ j' = j + 1
                /\ UNCHANGED <<pc, cur_name, cur_paid, cur_paid_raw, cur_vat>>
           ELSE IF cur_name = None /\ cand.returnare
           THEN /\ _PARSE_DEBUG_LINES' = _pd(DebugEntry("[skip]", Line(lines, i).cand))
                /\ j' = NextStop(lines, j + 1)
                /\ cur_name' = None
                /\ cur_paid' = None
                /\ pc' = "close"
                /\ UNCHANGED <<cur_paid_raw, cur_vat, pending_vat>>
           ELSE IF mv # None /\ AcceptsPaid(mv[1], cur_paid)
           THEN /\ cur_paid' = Some(mv[1])
                /\ cur_vat' = Some(mv[2])
                /\ cur_paid_raw' = Some(cand.cand)
                /\ cur_name' = IF cur_name = None /\ cand.name_part_ok
                               THEN Some(mv[3])
                               ELSE cur_name
                /\ _PARSE_DEBUG_LINES' = _pd(DebugEntry("[paid] inline", cand.cand))
                /\ j' = j + 1
                /\ UNCHANGED <<pc, pending_vat>>
           ELSE IF mv2 # None /\ AcceptsPaid(mv2[1], cur_paid)
           THEN /\ cur_paid' = Some(mv2[1])
                /\ cur_vat' = Some(mv2[2])
                /\ cur_paid_raw' = Some(cand.cand \o <<" ">> \o Line(lines, j + 1).cand)
                /\ _PARSE_DEBUG_LINES' =
                      _pd(DebugEntry("[paid] split",
                                     cand.cand \o <<" ">> \o Line(lines, j + 1).cand))
                /\ j' = j + mv2[3]
                /\ UNCHANGED <<pc, cur_name, pending_vat>>
           ELSE IF mv3 # None /\ cur_paid = None /\ Val(mv3) > 0
           THEN /\ cur_paid' = mv3
                /\ cur_vat' = pending_vat
                /\ cur_paid_raw' = IF pending_vat = None
                                   THEN Some(cand.cand)
                                   ELSE Some(cand.cand \o <<" ", Val(pending_vat)>>)
                /\ _PARSE_DEBUG_LINES' =
                      _pd(DebugEntry("[paid] money_only",
                                     IF pending_vat = None
                                     THEN cand.cand
                                     ELSE cand.cand \o <<" ", Val(pending_vat)>>))
                /\ pending_vat' = None
                /\ j' = j + 1
                /\ UNCHANGED <<pc, cur_name>>
           ELSE IF cur_name = None /\ ~cand.noise /\ cand.vat_only = None
           THEN /\ cur_name' = Some(cand.cand)
                /\ _PARSE_DEBUG_LINES' = _pd(DebugEntry("[name]", cand.cand))
                /\ j' = j + 1
                /\ UNCHANGED <<pc, cur_paid, cur_paid_raw, cur_vat, pending_vat>>
           ELSE /\ j' = j + 1
                /\ UNCHANGED <<pc, curVars, _PARSE_DEBUG_LINES>>
    /\ UNCHANGED <<lines, pureVars, callVars, _PARSE_DEBUG, dbg, i, items, warnings,
                   sgr_recovered, resultVars>>

\* A close that gives up only when both bindings are missing.
IsIncomplete_both(name, paid) == name = None /\ paid = None

\* if cur_name is None or cur_paid is None
IsIncomplete(name, paid) == name = None \/ paid = None

\* The refund placeholder: nothing bound, lines were skipped, and collection
\* stopped on a qty line or a totals marker.
IsRefundSkip(ls, i0, j0, name, paid) ==
    /\ name = None /\ paid = None
    /\ j0 > i0 + 1
    /\ j0 <= Len(ls)
    /\ (IsQtyLine(ls, j0) \/ Line(ls, j0).totals)

\* The item appended for the anchor at i0, closed at j0.  Four fields are kept
\* beside those of the source's dict: vat, the cur_vat the parser logs with the
\* item; anchor, the position of its qty line; discount_by and discount_pos,
\* which pass attached the discount ("none", "pattern_d", "lei") and the
\* position of the line its amount was read from.
NewItem(ls, i0, j0, name, paid, paid_raw, vat) ==
    LET m == Line(ls, i0).qty
        d == PatternD(ls, j0)
    IN  [name            |-> name,
         quantity        |-> parse_quantity(m[1]),
         quantity_raw    |-> m[1],
         unit            |-> m[2],
         unit_price      |-> parse_money(m[3]),
         unit_price_raw  |-> m[3],
         paid_amount     |-> paid,
         paid_amount_raw |-> paid_raw,
         discount        |-> d.discount,
         discount_raw    |-> d.discount_raw,
         vat             |-> vat,
         anchor          |-> i0,
         discount_by     |-> IF d.pos = 0 THEN "none" ELSE "pattern_d",
         discount_pos    |-> d.pos]

IncompleteWarning(ls, i0, name, paid) ==
    [text |-> "Incomplete item after qty line", qty_line |-> ls[i0].cand,
     name |-> name, paid |-> paid, anchor |-> i0]

\* parse_items after the collection loop: skip, warn, or close the item (with
\* its Pattern D block) and move the outer index.
CloseItem ==
    /\ pc = "close"
    /\ IF IsIncomplete(cur_name, cur_paid)
       THEN IF IsRefundSkip(lines, i, j, cur_name, cur_paid)
            THEN /\ i' = j
                 /\ UNCHANGED <<items, warnings, _PARSE_DEBUG_LINES>>
            ELSE /\ warnings' = Append(warnings,
                                       IncompleteWarning(lines, i, cur_name, cur_paid))
                 /\ _PARSE_DEBUG_LINES' =
                       PdAll(<<DebugEntry("[warn]", Line(lines, i).cand),
                               DebugEntry("[warn_ctx]", Line(lines, i).cand)>>)
                 /\ i' = i + 1
                 /\ UNCHANGED items
       ELSE /\ items' = Append(items, NewItem(lines, i, j, cur_name, cur_paid,
                                              cur_paid_raw, cur_vat))
            /\ _PARSE_DEBUG_LINES' = _pd(DebugEntry("[item]", Line(lines, i).cand))
            /\ i' = Max(i + 1, PatternD(lines, j).k)
            /\ UNCHANGED warnings
    /\ pc' = "scan"
    /\ UNCHANGED <<lines, pureVars, callVars, _PARSE_DEBUG, dbg, j, curVars,
                   sgr_recovered, resultVars>>

\* The end of parse_items: the SGR amount.
ExtractSgr ==
    /\ pc = "sgr"
    /\ sgr_recovered' = SgrRecovered(lines)
    /\ pc' = "attach_start"
    /\ UNCHANGED <<lines, pureVars, debugVars, i, j, curVars, items, warnings, resultVars>>

\* it["discount"] = float(it.get("discount") or 0.0)
\* it["discount_raw"] = it.get("discount_raw")
ResetItem(it) ==
    [it EXCEPT !.discount = IF it.discount # 0 THEN it.discount ELSE 0,
               !.discount_raw = it.discount_raw]

\* process_one reads the LEI stream and enters attach_discounts_from_lei:
\* the early return, or the reset loop and the start of the walk.
StartAttach ==
    /\ pc = "attach_start"
    /\ lei_tokens' = _extract_amount_stream_from_lei(lines)
    /\ IF items = << >> \/ lei_tokens' = << >>
       THEN /\ discount_total' = 0
            /\ pc' = "post"
            /\ UNCHANGED <<items, ti, it_idx>>
       ELSE /\ items' = [x \in DOMAIN items |-> ResetItem(items[x])]
            /\ ti' = 1
            /\ discount_total' = 0
            /\ it_idx' = 1
            /\ pc' = "attach"
    /\ UNCHANGED <<lines, pureVars, debugVars, total, subtotal, i, j, curVars, warnings, sgr_recovered,
                   status, error, sgr_charge>>

\* One pass of the loop over the items, or its end.
AttachItem ==
    /\ pc = "attach"
    /\ IF it_idx > Len(items)
       THEN /\ discount_total' = money_round(discount_total)
            /\ pc' = "post"
            /\ UNCHANGED <<items, ti, it_idx>>
       ELSE LET r == AttachOne(items[it_idx], lei_tokens, ti)
            IN  /\ items' = [items EXCEPT ![it_idx] = r.it]
                /\ ti' = r.ti
                /\ discount_total' = discount_total + r.added
                /\ it_idx' = it_idx + 1
                /\ UNCHANGED pc
    /\ UNCHANGED <<lines, pureVars, debugVars, total, subtotal, i, j, curVars, warnings, sgr_recovered,
                   lei_tokens, status, error, sgr_charge>>

\* needs_review, the dedupe and the status of the record.
WithReview(it) == [needs_review |-> _needs_review_from_item(it)] @@ it

PostProcess ==
    /\ pc = "post"
    /\ items' = dedupe_incomplete_duplicates(
                    [x \in DOMAIN items |-> WithReview(items[x])])
    /\ status' = StatusOf(total, warnings)
    /\ error' = ErrorOf(total)
    /\ sgr_charge' = Some(0)
    /\ dbg' = dbg
               \o (IF debug /\ _PARSE_DEBUG_LINES # << >>
                   THEN <<DebugEntry("[PARSE_DEBUG]", << >>)>> \o _PARSE_DEBUG_LINES
                   ELSE << >>)
               \o <<DebugEntry("[DT]", << >>), DebugEntry("[TOTALS]", << >>),
                    DebugEntry("[SGR]", << >>), DebugEntry("[ITEMS]", << >>)>>
               \o (IF debug
                   THEN [x \in DOMAIN items' |->
                            DebugEntry("item", NameStr(items'[x].name))]
                   ELSE << >>)
    /\ pc' = "done"
    /\ UNCHANGED <<lines, pureVars, callVars, _PARSE_DEBUG, _PARSE_DEBUG_LINES, total, subtotal, i, j, curVars, warnings, sgr_recovered,
                   lei_tokens, ti, it_idx, discount_total>>

Next ==
    \/ BeginProcessOne
    \/ ExtractTotals
    \/ ScanLine
    \/ CollectLine
    \/ CloseItem
    \/ ExtractSgr
    \/ StartAttach
    \/ AttachItem
    \/ PostProcess

Spec == Init /\ [][Next]_vars

(***************************************************************************)
(* parse_money on its own.  The amount texts are a leading digit run, an   *)
(* optional thousands group, a decimal separator and two decimals.         *)
(***************************************************************************)
MoneyHeads == {<<"1">>, <<"7">>, <<"1", "2">>, <<"1", "2", "3">>}
MoneyGroups == {<< >>, <<".", "2", "3", "4">>, <<" ", "2", "3", "4">>}
MoneyDecimalSeps == {<<",">>, <<".">>}
MoneyCents == {<<"5", "6">>, <<"1", "9">>, <<"0", "0">>}

MoneyTexts ==
    {h \o g \o d \o c : h \in MoneyHeads, g \in MoneyGroups,
                        d \in MoneyDecimalSeps, c \in MoneyCents}

InitMoney ==
    /\ money_text \in MoneyTexts
    /\ money_value = None
    /\ pc = "money"
    /\ lines = << >>
    /\ total = None /\ subtotal = None
    /\ i = 1 /\ j = 1
    /\ cur_name = None /\ cur_paid = None /\ cur_paid_raw = None
    /\ cur_vat = None /\ pending_vat = None
    /\ items = << >> /\ warnings = << >> /\ sgr_recovered = 0
    /\ lei_tokens = << >> /\ ti = 1 /\ it_idx = 1 /\ discount_total = 0
    /\ status = "ok" /\ error = None /\ sgr_charge = None
    /\ ts_lines = << >> /\ ts_idx = 1
    /\ date_s = None /\ time_s = None /\ timestamp = None
    /\ IdleSide
    /\ IdleDebug

\* v = parse_money(text)
ParseMoney ==
    /\ pc = "money"
    /\ money_value' = parse_money(money_text)
    /\ pc' = "money_done"
    /\ UNCHANGED <<lines, money_text, total, subtotal, i, j, curVars, items,
                   warnings, sgr_recovered, lei_tokens, ti, it_idx,
                   discount_total, status, error, sgr_charge,
                   ts_lines, ts_idx, date_s, time_s, timestamp, sideVars, debugVars>>

NextMoney == ParseMoney

SpecMoney == InitMoney /\ [][NextMoney]_vars

(***************************************************************************)
(* extract_timestamp on its own.                                           *)
(*   date: DATA\s*[: ]\s*([0-9]{2})/([0-9]{2})/([0-9]{4})                   *)
(*   time: [0O]RA\s*[: ]\s*([0-9]{2})[-: ]([0-9]{2})[-: ]([0-9]{2})          *)
(* both searched in the upper-ASCII form of each line.                     *)
(***************************************************************************)
\* \s*[: ]\s* at q: the position after it, or 0.  Either the run of spaces
\* ends at a ":" that more spaces may follow, or the run is not empty and
\* [: ] takes one of its spaces.
SepEnd(s, q) ==
    With(SkipSpaces(s, q), LAMBDA a :
        IF At(s, a) = ":" THEN SkipSpaces(s, a + 1)
        ELSE IF a > q THEN a
        ELSE 0)

TwoDigits(s, p) == DigitAt(s, p) /\ DigitAt(s, p + 1)

\* The date expression at p: None or <<dd, mm, yyyy>>.
DateAt(s, p) ==
    IF Slice(s, p, p + 3) # <<"D", "A", "T", "A">> THEN None
    ELSE With(SepEnd(s, p + 4), LAMBDA d :
             IF /\ d # 0
                /\ TwoDigits(s, d) /\ At(s, d + 2) = "/"
                /\ TwoDigits(s, d + 3) /\ At(s, d + 5) = "/"
                /\ TwoDigits(s, d + 6) /\ TwoDigits(s, d + 8)
             THEN Some(<<SubSeq(s, d, d + 1), SubSeq(s, d + 3, d + 4),
                         SubSeq(s, d + 6, d + 9)>>)
             ELSE None)

\* [-: ]
IsTimeSep(c) == c = "-" \/ c = ":" \/ c = " "

\* The time expression at p: None or <<hh, mm, ss>>.
TimeAt(s, p) ==
    IF ~(At(s, p) \in {"0", "O"} /\ At(s, p + 1) = "R" /\ At(s, p + 2) = "A") THEN None
    ELSE With(SepEnd(s, p + 3), LAMBDA d :
             IF /\ d # 0
                /\ TwoDigits(s, d) /\ IsTimeSep(At(s, d + 2))
                /\ TwoDigits(s, d + 3) /\ IsTimeSep(At(s, d + 5))
                /\ TwoDigits(s, d + 6)
             THEN Some(<<SubSeq(s, d, d + 1), SubSeq(s, d + 3, d + 4),
                         SubSeq(s, d + 6, d + 7)>>)
             ELSE None)

\* re.search: the match at the leftmost position that has one, or None.
DateSearch(s) ==
    With({p \in DOMAIN s : DateAt(s, p) # None}, LAMBDA starts :
        IF starts = {} THEN None
        ELSE DateAt(s, CHOOSE x \in starts : \A y \in starts : x <= y))

TimeSearch(s) ==
    With({p \in DOMAIN s : TimeAt(s, p) # None}, LAMBDA starts :
        IF starts = {} THEN None
        ELSE TimeAt(s, CHOOSE x \in starts : \A y \in starts : x <= y))

\* re.sub(r"\D", "0", h)
ZeroNonDigits(h) == [k \in DOMAIN h |-> IF IsDigit(h[k]) THEN h[k] ELSE "0"]

_clean_time_triplet(h, m, s) == <<ZeroNonDigits(h), ZeroNonDigits(m), ZeroNonDigits(s)>>

\* f"{m.group(3)}-{m.group(2)}-{m.group(1)}"
FormatDate(m) == m[3] \o <<"-">> \o m[2] \o <<"-">> \o m[1]

\* f"{hh}:{mm}:{ss}" of the cleaned triplet
FormatTime(m) ==
    With(_clean_time_triplet(m[1], m[2], m[3]), LAMBDA c :
        c[1] \o <<":">> \o c[2] \o <<":">> \o c[3])

\* Python's truth of an optional string.
Truthy(o) == o # None /\ Val(o) # << >>

Midnight == <<"T", "0", "0", ":", "0", "0", ":", "0", "0">>

\* A result that needs both parts.
ComposeTimestamp_both_or_none(d, t) ==
    IF Truthy(d) /\ Truthy(t) THEN Some(Val(d) \o <<"T">> \o Val(t))
    ELSE None

\* The three returns of extract_timestamp.
ComposeTimestamp(d, t) ==
    IF Truthy(d) /\ Truthy(t) THEN Some(Val(d) \o <<"T">> \o Val(t))
    ELSE IF Truthy(d) THEN Some(Val(d) \o Midnight)
    ELSE None

\* DATA: 05/11/2026
T_Date1 == <<"D", "A", "T", "A", ":", " ", "0", "5", "/", "1", "1", "/", "2", "0", "2", "6">>
\* Data 01/02/2025
T_Date2 == <<"D", "a", "t", "a", " ", "0", "1", "/", "0", "2", "/", "2", "0", "2", "5">>
\* ORA: 12:34:56
T_Time1 == <<"O", "R", "A", ":", " ", "1", "2", ":", "3", "4", ":", "5", "6">>
\* 0ra 08-15 00
T_Time2 == <<"0", "r", "a", " ", "0", "8", "-", "1", "5", " ", "0", "0">>
\* DATA:31/12/2024 ORA:10:20:30
T_Both == <<"D", "A", "T", "A", ":", "3", "1", "/", "1", "2", "/", "2", "0", "2", "4", " ", "O", "R", "A", ":", "1", "0", ":", "2", "0", ":", "3", "0">>
\* DATA 5/11/2026
T_NoDate == <<"D", "A", "T", "A", " ", "5", "/", "1", "1", "/", "2", "0", "2", "6">>
\* BON FISCAL
T_Other == <<"B", "O", "N", " ", "F", "I", "S", "C", "A", "L">>

StampVocab == {T_Date1, T_Date2, T_Time1, T_Time2, T_Both, T_NoDate, T_Other}

MaxStampLines == 3

StampInputs == SeqsUpTo(StampVocab, MaxStampLines)

InitTimestamp ==
    /\ ts_lines \in StampInputs
    /\ ts_idx = 1
    /\ date_s = None /\ time_s = None /\ timestamp = None
    /\ pc = "ts_scan"
    /\ lines = << >>
    /\ total = None /\ subtotal = None
    /\ i = 1 /\ j = 1
    /\ cur_name = None /\ cur_paid = None /\ cur_paid_raw = None
    /\ cur_vat = None /\ pending_vat = None
    /\ items = << >> /\ warnings = << >> /\ sgr_recovered = 0
    /\ lei_tokens = << >> /\ ti = 1 /\ it_idx = 1 /\ discount_total = 0
    /\ status = "ok" /\ error = None /\ sgr_charge = None
    /\ money_text = << >> /\ money_value = None
    /\ IdleSide
    /\ IdleDebug

stampFrame == <<lines, total, subtotal, i, j, curVars, items, warnings, sgr_recovered,
                lei_tokens, ti, it_idx, discount_total, status, error, sgr_charge,
                money_text, money_value, ts_lines, sideVars, debugVars>>

\* One pass of the loop over the lines.
TimestampLine ==
    /\ pc = "ts_scan"
    /\ ts_idx <= Len(ts_lines)
    /\ date_s' = With(DateSearch(_upper_ascii(ts_lines[ts_idx])), LAMBDA m :
                      IF m # None THEN Some(FormatDate(Val(m))) ELSE date_s)
    /\ time_s' = With(TimeSearch(_upper_ascii(ts_lines[ts_idx])), LAMBDA m :
                      IF m # None THEN Some(FormatTime(Val(m))) ELSE time_s)
    /\ ts_idx' = ts_idx + 1
    /\ UNCHANGED <<pc, timestamp, stampFrame>>

\* The end of the loop and the return.
TimestampReturn ==
    /\ pc = "ts_scan"
    /\ ts_idx > Len(ts_lines)
    /\ timestamp' = ComposeTimestamp(date_s, time_s)
    /\ pc' = "ts_done"
    /\ UNCHANGED <<ts_idx, date_s, time_s, stampFrame>>

NextTimestamp ==
    \/ TimestampLine
    \/ TimestampReturn

SpecTimestamp == InitTimestamp /\ [][NextTimestamp]_vars

(***************************************************************************)
(* dedupe_incomplete_duplicates on its own, given any list of items.  An   *)
(* item holds the fields the function reads: the four of the core and      *)
(* paid_amount.                                                            *)
(***************************************************************************)
\* The locals of process_one and of the two extractors, at rest.
IdlePipeline ==
    /\ lines = << >>
    /\ total = None /\ subtotal = None
    /\ i = 1 /\ j = 1
    /\ cur_name = None /\ cur_paid = None /\ cur_paid_raw = None
    /\ cur_vat = None /\ pending_vat = None
    /\ items = << >> /\ warnings = << >> /\ sgr_recovered = 0
    /\ lei_tokens = << >> /\ ti = 1 /\ it_idx = 1 /\ discount_total = 0
    /\ status = "ok" /\ error = None /\ sgr_charge = None
    /\ money_text = << >> /\ money_value = None
    /\ ts_lines = << >> /\ ts_idx = 1
    /\ date_s = None /\ time_s = None /\ timestamp = None
    /\ IdleDebug

localVars == <<lines, total, subtotal, i, j, curVars, items, warnings, sgr_recovered,
               lei_tokens, ti, it_idx, discount_total, status, error, sgr_charge,
               money_text, money_value, ts_lines, ts_idx, date_s, time_s, timestamp>>

pipelineVars == <<localVars, debugVars>>

DedupeNames == {L_Name, L_S3Name}
DedupePaid == {None, Some(799), Some(700)}

DedupeItem(nm, paid) ==
    [name        |-> Some(nm),
     quantity    |-> parse_quantity(<<"1", ",", "0", "0", "0">>),
     unit        |-> <<"B", "U", "C">>,
     unit_price  |-> Some(799),
     paid_amount |-> paid]

DedupePool == {DedupeItem(nm, paid) : nm \in DedupeNames, paid \in DedupePaid}

MaxItems == 3

InitDedupe ==
    /\ dd_items \in SeqsUpTo(DedupePool, MaxItems)
    /\ dd_out = << >> /\ dd_again = << >>
    /\ pc = "dedupe"
    /\ IdlePipeline
    /\ IdleInv
    /\ IdleIngest
    /\ IdleStore

\* out = dedupe_incomplete_duplicates(items)
DedupeOnce ==
    /\ pc = "dedupe"
    /\ dd_out' = dedupe_incomplete_duplicates(dd_items)
    /\ pc' = "dedupe_again"
    /\ UNCHANGED <<dd_items, dd_again, pipelineVars, invVars, ingestVars, storeVars>>

\* again = dedupe_incomplete_duplicates(out)
DedupeAgain ==
    /\ pc = "dedupe_again"
    /\ dd_again' = dedupe_incomplete_duplicates(dd_out)
    /\ pc' = "dedupe_done"
    /\ UNCHANGED <<dd_items, dd_out, pipelineVars, invVars, ingestVars, storeVars>>

NextDedupe ==
    \/ DedupeOnce
    \/ DedupeAgain

SpecDedupe == InitDedupe /\ [][NextDedupe]_vars

(***************************************************************************)
(* Two calls of process_one, one after the other in one process, on the    *)
(* same lines and context strings, each with its own debug flag.           *)
(***************************************************************************)
MerchantScan == 50

IsCif(t) == Len(t.cand) = 8 /\ \A k \in DOMAIN t.cand : IsDigit(t.cand[k])

IsAddress(t) ==
    \/ StartsWith(t.upper, <<"S", "T", "R", "A", "D", "A">>)
    \/ StartsWith(t.upper, <<"B", "U", "L", "E", "V", "A", "R", "D", "U", "L">>)

IsLidlName(t) == Contains(t.upper, <<"L", "I", "D", "L">>)

\* Whether line t matches what extract_merchant looks for under kind.
MerchantMatch(kind, t) ==
    IF kind = "name" THEN IsLidlName(t)
    ELSE IF kind = "cif" THEN IsCif(t)
    ELSE IsAddress(t)

\* The first line of ls among the first MerchantScan that matches kind, or 0.
FirstLine(ls, kind) ==
    LET hits == {p \in DOMAIN ls : p <= MerchantScan /\ MerchantMatch(kind, ls[p])}
    IN  IF hits = {} THEN 0 ELSE CHOOSE p \in hits : \A q \in hits : p <= q

extract_merchant(ls) ==
    LET n == FirstLine(ls, "name")
        c == FirstLine(ls, "cif")
        a == FirstLine(ls, "address")
    IN  [name    |-> IF n = 0 THEN None ELSE Some(ls[n].cand),
         address |-> IF a = 0 THEN None ELSE Some(ls[a].cand),
         city    |-> IF a = 0 \/ a + 1 > Len(ls) THEN None ELSE Some(ls[a + 1].cand),
         cif     |-> IF c = 0 THEN None ELSE Some(ls[c].cand)]

\* extract_timestamp as the loop of TimestampLine and TimestampReturn runs it.
RECURSIVE StampFold(_, _, _, _)
StampFold(ls, p, d, t) ==
    IF p > Len(ls) THEN ComposeTimestamp(d, t)
    ELSE With(DateSearch(ls[p].upper), LAMBDA m :
         With(TimeSearch(ls[p].upper), LAMBDA n :
             StampFold(ls, p + 1,
                       IF m # None THEN Some(FormatDate(Val(m))) ELSE d,
                       IF n # None THEN Some(FormatTime(Val(n))) ELSE t)))

extract_timestamp(ls) == StampFold(ls, 1, None, None)

\* The context strings of a call.
Store == "lidl"
RelBase == "inbox"
FileName == "receipt.jpg"

build_json_schema_v3(store, rel_base, file_name, ocr_text, merchant, stamp, tot, disc_total, sgr_chg, sgr_rec, its, warns, st, err) ==
    [schema_version       |-> 3,
     store                |-> store,
     timestamp            |-> stamp,
     currency             |-> "RON",
     total                |-> tot,
     discount_total       |-> money_round(disc_total),
     sgr_bottle_charge    |-> money_round(sgr_chg),
     sgr_recovered_amount |-> money_round(sgr_rec),
     merchant             |-> [name    |-> merchant.name,
                               address |-> merchant.address,
                               city    |-> merchant.city,
                               cif     |-> merchant.cif],
     items                |-> its,
     processing           |-> [status     |-> st,
                               warnings   |-> warns,
                               error      |-> err,
                               ocr_engine |-> "apple_vision"],
     source               |-> [file_name    |-> file_name,
                               store_folder |-> store,
                               rel_path     |-> <<rel_base, store, file_name>>],
     raw_text             |-> ocr_text]

\* "\n".join(lines)
RawText(ls) == [p \in DOMAIN ls |-> ls[p].cand]

\* A record that carries the debug trace of the call with it.
out_json_with_trace ==
    [debug_trace |-> dbg] @@
    build_json_schema_v3(Store, RelBase, FileName, RawText(lines), extract_merchant(lines),
                         extract_timestamp(lines), total, discount_total, Val(sgr_charge),
                         sgr_recovered, items, warnings, status, error)

\* The record process_one builds once the post-processing is done.
out_json ==
    build_json_schema_v3(Store, RelBase, FileName, RawText(lines), extract_merchant(lines),
                         extract_timestamp(lines), total, discount_total, Val(sgr_charge),
                         sgr_recovered, items, warnings, status, error)

MaxRunLines == 3

RunInputs == SeqsUpTo(FreeIds, MaxRunLines) \cup Scenarios

\* What an earlier call may have left in _PARSE_DEBUG_LINES.
StaleLines == {<< >>, <<DebugEntry("[name]", L_S3Name)>>}

InitRuns ==
    /\ lines \in {Tokens(w) : w \in RunInputs}
    /\ pc = "begin"
    /\ total = None /\ subtotal = None
    /\ i = 1 /\ j = 1
    /\ cur_name = None /\ cur_paid = None /\ cur_paid_raw = None
    /\ cur_vat = None /\ pending_vat = None
    /\ items = << >> /\ warnings = << >> /\ sgr_recovered = 0
    /\ lei_tokens = << >> /\ ti = 1 /\ it_idx = 1 /\ discount_total = 0
    /\ status = "ok" /\ error = None /\ sgr_charge = None
    /\ money_text = << >> /\ money_value = None
    /\ ts_lines = << >> /\ ts_idx = 1
    /\ date_s = None /\ time_s = None /\ timestamp = None
    /\ IdleSide
    /\ debug \in BOOLEAN
    /\ _PARSE_DEBUG \in BOOLEAN
    /\ _PARSE_DEBUG_LINES \in StaleLines
    /\ dbg = << >>
    /\ run = 1 /\ first_return = None

\* The first call returns (out_json, dbg) and process_one is called again on
\* the same image: the locals are those of a new call, the globals stay.
CallAgain ==
    /\ pc = "done"
    /\ run = 1
    /\ first_return' = Some(<<out_json, dbg>>)
    /\ run' = 2
    /\ debug' \in BOOLEAN
    /\ pc' = "begin"
    /\ total' = None /\ subtotal' = None
    /\ i' = 1 /\ j' = 1
    /\ cur_name' = None /\ cur_paid' = None /\ cur_paid_raw' = None
    /\ cur_vat' = None /\ pending_vat' = None
    /\ items' = << >> /\ warnings' = << >> /\ sgr_recovered' = 0
    /\ lei_tokens' = << >> /\ ti' = 1 /\ it_idx' = 1 /\ discount_total' = 0
    /\ status' = "ok" /\ error' = None /\ sgr_charge' = None
    /\ UNCHANGED <<lines, pureVars, _PARSE_DEBUG, _PARSE_DEBUG_LINES, dbg>>

NextRuns ==
    \/ Next
    \/ CallAgain

SpecRuns == InitRuns /\ [][NextRuns]_vars

(***************************************************************************)
(* Two calls of process_one on distinct inputs whose steps interleave, as  *)
(* two threads of one process run them.  Each call has its own locals;     *)
(* _PARSE_DEBUG and _PARSE_DEBUG_LINES are the globals of the module.  The *)
(* parse of a call is the sequence of its _pd calls: each quotes a line of *)
(* its own input, <<call, line>>, and adds that line to what it builds.    *)
(***************************************************************************)
Invocations == {1, 2}

MaxEntries == 2

InvMessages(t, n) == [k \in 1..n |-> DebugEntry("[name]", <<t, k>>)]

InitThreads ==
    /\ pc = "threads"
    /\ inv_pc = [t \in Invocations |-> "begin"]
    /\ inv_debug \in [Invocations -> BOOLEAN]
    /\ inv_todo \in {[t \in Invocations |-> [msgs |-> InvMessages(t, n[t]), at |-> 1]] :
                        n \in [Invocations -> 0..MaxEntries]}
    /\ inv_items = [t \in Invocations |-> << >>]
    /\ inv_dbg = [t \in Invocations |-> << >>]
    /\ IdlePipeline
    /\ IdleDedupe
    /\ IdleIngest
    /\ IdleStore

threadFrame == <<pc, localVars, callVars, dbg, dedupeVars, ingestVars, storeVars,
                 inv_debug>>

\* _PARSE_DEBUG = bool(debug)
SetFlag(t) ==
    /\ inv_pc[t] = "begin"
    /\ _PARSE_DEBUG' = inv_debug[t]
    /\ inv_pc' = [inv_pc EXCEPT ![t] = "reset"]
    /\ UNCHANGED <<threadFrame, _PARSE_DEBUG_LINES, inv_todo, inv_items, inv_dbg>>

\* _PARSE_DEBUG_LINES = []
ResetLines(t) ==
    /\ inv_pc[t] = "reset"
    /\ _PARSE_DEBUG_LINES' = << >>
    /\ inv_pc' = [inv_pc EXCEPT ![t] = "parse"]
    /\ UNCHANGED <<threadFrame, _PARSE_DEBUG, inv_todo, inv_items, inv_dbg>>

\* One step of the parse that ends in a _pd call.
ParseStep(t) ==
    /\ inv_pc[t] = "parse"
    /\ inv_todo[t].at <= Len(inv_todo[t].msgs)
    /\ _PARSE_DEBUG_LINES' = _pd(inv_todo[t].msgs[inv_todo[t].at])
    /\ inv_items' = [inv_items EXCEPT
                        ![t] = Append(@, inv_todo[t].msgs[inv_todo[t].at].line)]
    /\ inv_todo' = [inv_todo EXCEPT ![t].at = @ + 1]
    /\ UNCHANGED <<threadFrame, _PARSE_DEBUG, inv_pc, inv_dbg>>

\* if debug and _PARSE_DEBUG_LINES: dbg.append("[PARSE_DEBUG]"); dbg.extend(...)
CollectTrace(t) ==
    /\ inv_pc[t] = "parse"
    /\ inv_todo[t].at > Len(inv_todo[t].msgs)
    /\ inv_dbg' = [inv_dbg EXCEPT
                      ![t] = IF inv_debug[t] /\ _PARSE_DEBUG_LINES # << >>
                             THEN <<DebugEntry("[PARSE_DEBUG]", << >>)>>
                                     \o _PARSE_DEBUG_LINES
                             ELSE << >>]
    /\ inv_pc' = [inv_pc EXCEPT ![t] = "done"]
    /\ UNCHANGED <<threadFrame, _PARSE_DEBUG, _PARSE_DEBUG_LINES, inv_todo, inv_items>>

NextThreads ==
    \E t \in Invocations :
        \/ SetFlag(t)
        \/ ResetLines(t)
        \/ ParseStep(t)
        \/ CollectTrace(t)

SpecThreads == InitThreads /\ [][NextThreads]_vars

(***************************************************************************)
(* process_image of the ingestion layer (ingest.py), for one image.  The   *)
(* parser is called through _parse_with_retry; each call returns a record  *)
(* or raises.  The database client answers each call in one of the ways    *)
(* storage.py can.                                                         *)
(***************************************************************************)
_build_failure_payload(store, file_name, error_code, message) ==
    [schema_version       |-> 3,
     store                |-> store,
     timestamp            |-> None,
     currency             |-> "RON",
     total                |-> Some(0),
     discount_total       |-> 0,
     sgr_bottle_charge    |-> 0,
     sgr_recovered_amount |-> 0,
     items                |-> << >>,
     merchant             |-> << >>,
     processing           |-> [status   |-> "fail",
                               warnings |-> << >>,
                               error    |-> [code |-> error_code, message |-> message]],
     source               |-> [file_name    |-> file_name,
                               store_folder |-> store,
                               rel_path     |-> <<"inbox", store, file_name>>]]

\* @retry(stop=stop_after_attempt(3), ...)
stop_after_attempt == 3

\* A retry that allows one attempt more.
RetryStops_late(n) == n >= stop_after_attempt + 1

\* Whether the retry stops after the n-th attempt has raised.
RetryStops(n) == n >= stop_after_attempt

\* What the parser may return: a record of each status, with and without
\* a timestamp.
ParsedStamp == ComposeTimestamp(Some(<<"2", "0", "2", "6", "-", "1", "1", "-", "0", "5">>), None)

ParserRecord(st, stamp) ==
    build_json_schema_v3(
        Store, RelBase, FileName, <<L_Qty, L_Name, L_PaidVat>>,
        [name |-> None, address |-> None, city |-> None, cif |-> None],
        stamp,
        IF st = "fail" THEN None ELSE Some(799),
        0, 0, 0,
        <<WithReview(DedupeItem(L_Name, Some(799)))>>,
        IF st = "warn" THEN <<"Incomplete item after qty line">> ELSE << >>,
        st,
        IF st = "fail" THEN Some(NoTotalError) ELSE None)

ParserRecords ==
    {ParserRecord(st, stamp) : st \in {"ok", "warn", "fail"}, stamp \in {None, ParsedStamp}}

\* The messages of the exceptions the parser may raise.
ParserErrors == {"Apple Vision not available", "OCR failed"}

InitIngest ==
    /\ pc = "pi_parse"
    /\ dry_run \in BOOLEAN /\ no_db \in BOOLEAN
    /\ move_files \in BOOLEAN /\ write_json_files \in BOOLEAN
    /\ config_ok \in BOOLEAN /\ client_ok \in BOOLEAN
    /\ attempts = 0 /\ last_exc = None /\ parsed = None
    /\ db_calls = << >> /\ db_result = None /\ outcome = None
    /\ moved_to = None /\ written = << >> /\ file_result = None
    /\ IdlePipeline
    /\ IdleDedupe
    /\ IdleInv
    /\ IdleStore

ingestFrame == <<pipelineVars, dedupeVars, invVars, storeVars, flagVars>>

\* An attempt of _parse_with_retry in which parser.parse returns.
ParserReturns ==
    /\ pc = "pi_parse"
    /\ \E r \in ParserRecords : parsed' = Some(r)
    /\ attempts' = attempts + 1
    /\ last_exc' = None
    /\ pc' = "pi_db"
    /\ UNCHANGED <<ingestFrame, db_calls, db_result, outcome, moved_to, written,
                   file_result>>

\* An attempt in which parser.parse raises: the retry goes on, or it gives up
\* with RetryError and process_image substitutes the failure payload.
ParserRaises ==
    /\ pc = "pi_parse"
    /\ attempts' = attempts + 1
    /\ \E m \in ParserErrors :
          /\ last_exc' = Some(m)
          /\ IF RetryStops(attempts')
             THEN /\ parsed' = Some(_build_failure_payload(Store, FileName,
                                                          "PARSER_EXCEPTION", m))
                  /\ pc' = "pi_db"
             ELSE UNCHANGED <<parsed, pc>>
    /\ UNCHANGED <<ingestFrame, db_calls, db_result, outcome, moved_to, written,
                   file_result>>

\* processing.get("status", "fail")
ProcessingStatus(payload) ==
    IF "processing" \in DOMAIN payload /\ "status" \in DOMAIN payload.processing
    THEN payload.processing.status
    ELSE "fail"

DbResult(ok, skipped, err, receipt_id) ==
    [ok |-> ok, skipped |-> skipped, error |-> err, receipt_id |-> receipt_id]

\* A guard that looks at no_db alone.
DbEnabled_ignores_dry_run(dry, nodb) == ~nodb

\* if not dry_run and not no_db
DbEnabled(dry, nodb) == ~dry /\ ~nodb

\* What upsert_receipt may return: the receipt exists, it was inserted (with
\* or without an id in the response), or the request failed.
UpsertResults ==
    {DbResult(TRUE, TRUE, None, None),
     DbResult(TRUE, FALSE, None, Some("id")),
     DbResult(TRUE, FALSE, None, None),
     DbResult(FALSE, FALSE, Some("db error"), None)}

\* A refusal that does not look at the timestamp.
DbRefusal_no_timestamp_check(cfg, cl, st, stamp) ==
    IF ~cfg THEN Some("Missing Supabase config")
    ELSE IF ~cl THEN Some("Supabase client unavailable")
    ELSE IF st = "fail" THEN Some("Processing status fail")
    ELSE None

\* The error with which the database block ends before it calls the client,
\* or None when it goes on to upsert_receipt.
DbRefusal(cfg, cl, st, stamp) ==
    IF ~cfg THEN Some("Missing Supabase config")
    ELSE IF ~cl THEN Some("Supabase client unavailable")
    ELSE IF st = "fail" THEN Some("Processing status fail")
    ELSE IF ~Truthy(stamp) THEN Some("Missing receipt timestamp")
    ELSE None

\* if db_result.ok and not db_result.skipped and db_result.receipt_id
ItemsFollow(res) == res.ok /\ ~res.skipped /\ res.receipt_id # None

\* The database block up to and including upsert_receipt.
DbStep ==
    /\ pc = "pi_db"
    /\ LET refusal == DbRefusal(config_ok, client_ok, ProcessingStatus(Val(parsed)),
                                Val(parsed).timestamp)
       IN  IF ~DbEnabled(dry_run, no_db)
           THEN /\ db_result' = DbResult(TRUE, TRUE, None, None)
                /\ pc' = "pi_outcome"
                /\ UNCHANGED db_calls
           ELSE IF refusal # None
           THEN /\ db_result' = DbResult(FALSE, FALSE, refusal, None)
                /\ pc' = "pi_outcome"
                /\ UNCHANGED db_calls
           ELSE /\ db_calls' = Append(db_calls, "upsert_receipt")
                /\ \E res \in UpsertResults :
                      /\ db_result' = res
                      /\ pc' = IF ItemsFollow(res) THEN "pi_items" ELSE "pi_outcome"
    /\ UNCHANGED <<ingestFrame, attempts, last_exc, parsed, outcome, moved_to, written,
                   file_result>>

\* fetch_item_food_hints and insert_items after a receipt was inserted.
ItemsStep ==
    /\ pc = "pi_items"
    /\ db_calls' = db_calls \o <<"fetch_item_food_hints", "insert_items">>
    /\ \E items_ok \in BOOLEAN :
          db_result' = IF items_ok
                       THEN db_result
                       ELSE DbResult(FALSE, FALSE, Some("db error"), db_result.receipt_id)
    /\ pc' = "pi_outcome"
    /\ UNCHANGED <<ingestFrame, attempts, last_exc, parsed, outcome, moved_to, written,
                   file_result>>

\* An outcome that looks at the parse status alone.
OutcomeOf_status_only(st, dbres) == IF st = "fail" THEN "failed" ELSE "processed"

OutcomeOf(st, dbres) == IF st = "fail" \/ ~dbres.ok THEN "failed" ELSE "processed"

MessageOf(dry, nodb, dbres) ==
    IF dry THEN "dry-run"
    ELSE IF nodb THEN "db skipped"
    ELSE IF dbres.skipped THEN "dedup"
    ELSE IF dbres.ok THEN "db ok"
    ELSE "db error"

\* The message with its details: ' | error=...' for a failed parse that has
\* an error message, ' | warnings=N' for a parse with warnings.
MessageWith(base, st) ==
    IF st = "fail" THEN <<base, "error=">>
    ELSE IF st = "warn" THEN <<base, "warnings=">>
    ELSE <<base>>

\* dst_dir = receipts_root / ("failed" | "processed") / store
DstDir(out, store) == <<IF out = "failed" THEN "failed" ELSE "processed", store>>

\* The artifact written beside the image at moved_path.
Artifact(out, moved_path, payload, dbres) ==
    IF out = "failed"
    THEN [path |-> moved_path, suffix |-> ".error.json",
          payload |-> [runner_error |-> [code |-> IF ~dbres.ok THEN "DB_ERROR"
                                                   ELSE "PARSER_FAIL"],
                       data |-> payload]]
    ELSE [path |-> moved_path, suffix |-> ".json", payload |-> payload]

\* The rest of process_image: the outcome, the message, the move of the image,
\* the artifact and the FileResult.
FinishImage ==
    /\ pc = "pi_outcome"
    /\ LET st == ProcessingStatus(Val(parsed))
           out == OutcomeOf(st, db_result)
           moved_path == IF move_files
                         THEN Append(DstDir(out, Store), FileName)
                         ELSE <<"inbox", Store, FileName>>
       IN  /\ outcome' = Some(out)
           /\ moved_to' = IF ~dry_run /\ move_files THEN Some(DstDir(out, Store)) ELSE None
           /\ written' = IF ~dry_run /\ write_json_files
                         THEN <<Artifact(out, moved_path, Val(parsed), db_result)>>
                         ELSE << >>
           /\ file_result' = Some([file_name      |-> FileName,
                                    status         |-> st,
                                    outcome        |-> out,
                                    db_result      |-> db_result,
                                    message        |-> MessageWith(MessageOf(dry_run, no_db,
                                                                             db_result), st),
                                    items_count    |-> Len(Val(parsed).items),
                                    total          |-> Val(parsed).total,
                                    discount_total |-> Val(parsed).discount_total])
    /\ pc' = "pi_done"
    /\ UNCHANGED <<ingestFrame, attempts, last_exc, parsed, db_calls, db_result>>

NextIngest ==
    \/ ParserReturns
    \/ ParserRaises
    \/ DbStep
    \/ ItemsStep
    \/ FinishImage

SpecIngest == InitIngest /\ [][NextIngest]_vars

(***************************************************************************)
(* process_store of runner.py: the loop of process_image over the images   *)
(* of one inbox, one after the other, on the receipts and receipt_items    *)
(* tables.  One owner and one store, so a row's key is its source_hash.    *)
(* An image is its hash and what the parser makes of it; a parser that     *)
(* raises gives the failure payload, which is a 'fail' without timestamp.  *)
(* The batches of the loop (99-100) only group the images.                 *)
(***************************************************************************)
Hashes == {"h1", "h2"}

ParseKinds ==
    {[status |-> "ok", stamped |-> TRUE], [status |-> "ok", stamped |-> FALSE],
     [status |-> "warn", stamped |-> TRUE], [status |-> "fail", stamped |-> FALSE]}

Image(h, k) == [hash |-> h, status |-> k.status, stamped |-> k.stamped]

MaxImages == 2

ImageLists == SeqsUpTo({Image(h, k) : h \in Hashes, k \in ParseKinds}, MaxImages)

\* A receipt_exists that never finds a row.
HasRow_never(tbl, h) == FALSE

\* receipt_exists: a row of the table with this hash.
HasRow(tbl, h) == \E k \in DOMAIN tbl : tbl[k].hash = h

Row(tbl, h) == [hash |-> h, id |-> Len(tbl) + 1]

\* insert_receipt on table tbl: the row is added and the response holds its
\* id or no data, or the request fails.  [res, tbl]
InsertOutcomes(tbl, h) ==
    {[res |-> DbResult(TRUE, FALSE, None, Some(Len(tbl) + 1)), tbl |-> Append(tbl, Row(tbl, h))],
     [res |-> DbResult(TRUE, FALSE, None, None), tbl |-> Append(tbl, Row(tbl, h))],
     [res |-> DbResult(FALSE, FALSE, Some("db error"), None), tbl |-> tbl]}

\* upsert_receipt in one piece: the query fails, finds the row, or the
\* receipt is inserted.
UpsertOutcomes(tbl, h) ==
    {[res |-> DbResult(FALSE, FALSE, Some("db error"), None), tbl |-> tbl]}
    \cup (IF HasRow(tbl, h)
          THEN {[res |-> DbResult(TRUE, TRUE, None, None), tbl |-> tbl]}
          ELSE InsertOutcomes(tbl, h))

\* What follows the upsert_receipt outcome up: nothing, or fetch_item_food_hints (which
\* may raise) and insert_items (which may fail).  [raised, res, tbl, irows]
ItemsOutcomes(up, irows) ==
    IF ~ItemsFollow(up.res)
    THEN {[raised |-> FALSE, res |-> up.res, tbl |-> up.tbl, irows |-> irows]}
    ELSE {[raised |-> TRUE, res |-> up.res, tbl |-> up.tbl, irows |-> irows],
          [raised |-> FALSE, res |-> up.res, tbl |-> up.tbl,
           irows |-> Append(irows, Val(up.res.receipt_id))],
          [raised |-> FALSE,
           res |-> DbResult(FALSE, FALSE, Some("db error"), up.res.receipt_id),
           tbl |-> up.tbl, irows |-> irows]}

Stamp(img) == IF img.stamped THEN ParsedStamp ELSE None

\* Whether process_image reaches upsert_receipt for img.
ReachesUpsert(img) ==
    /\ DbEnabled(dry_run, no_db)
    /\ DbRefusal(config_ok, client_ok, img.status, Stamp(img)) = None

\* The database block of process_image for img on the two tables.
ImageOutcomes(img, tbl, irows) ==
    IF ~DbEnabled(dry_run, no_db)
    THEN {[raised |-> FALSE, res |-> DbResult(TRUE, TRUE, None, None),
           tbl |-> tbl, irows |-> irows]}
    ELSE IF ~ReachesUpsert(img)
    THEN {[raised |-> FALSE,
           res |-> DbResult(FALSE, FALSE,
                            DbRefusal(config_ok, client_ok, img.status, Stamp(img)), None),
           tbl |-> tbl, irows |-> irows]}
    ELSE UNION {ItemsOutcomes(up, irows) : up \in UpsertOutcomes(tbl, img.hash)}

\* The FileResult of process_image, as far as process_store reads it.
FileResultOf(img, res) ==
    [hash      |-> img.hash,
     status    |-> img.status,
     outcome   |-> OutcomeOf(img.status, res),
     db_result |-> res,
     message   |-> MessageWith(MessageOf(dry_run, no_db, res), img.status)]

\* The counters after one file.
Counted(m, r) ==
    [success    |-> m.success + (IF r.outcome = "processed" /\ r.status # "warn" THEN 1 ELSE 0),
     warn       |-> m.warn + (IF r.outcome = "processed" /\ r.status = "warn" THEN 1 ELSE 0),
     failed     |-> m.failed + (IF r.outcome # "processed" THEN 1 ELSE 0),
     duplicates |-> m.duplicates
                    + (IF r.db_result.skipped /\ ~(dry_run \/ no_db) THEN 1 ELSE 0)]

\* A run status that is 'fail' when a file failed to parse.
RunStatus_parse_fail(errs, res) ==
    IF \E k \in DOMAIN res : res[k].status = "fail" THEN "fail"
    ELSE IF \E k \in DOMAIN res : res[k].status = "warn" THEN "warn"
    ELSE "ok"

RunStatus(errs, res) ==
    IF errs # << >> THEN "fail"
    ELSE IF \E k \in DOMAIN res : res[k].status \in {"warn", "fail"} THEN "warn"
    ELSE "ok"

\* return 1 if run_status == "fail" else 0
ExitCode(rs) == IF rs = "fail" THEN 1 ELSE 0

\* The runner builds the client when the database is enabled and url and key
\* are set; process_image also asks for owner_id.
InitStore ==
    /\ pc = "ps_loop"
    /\ images \in ImageLists
    /\ img_idx = 1 /\ results = << >>
    /\ metrics = [success |-> 0, warn |-> 0, failed |-> 0, duplicates |-> 0]
    /\ db_errors = << >> /\ run_status = None /\ exit_code = None
    /\ receipts \in {<< >>, <<[hash |-> "h1", id |-> 1]>>}
    /\ item_rows = << >>
    /\ dry_run \in BOOLEAN /\ no_db \in BOOLEAN
    /\ \E url_key, owner \in BOOLEAN :
          /\ client_ok = (~dry_run /\ ~no_db /\ url_key)
          /\ config_ok = (url_key /\ owner)
    /\ move_files = FALSE /\ write_json_files = FALSE
    /\ attempts = 0 /\ last_exc = None /\ parsed = None
    /\ db_calls = << >> /\ db_result = None /\ outcome = None
    /\ moved_to = None /\ written = << >> /\ file_result = None
    /\ IdleWorkers
    /\ IdlePipeline
    /\ IdleDedupe
    /\ IdleInv

storeFrame == <<pipelineVars, dedupeVars, invVars, ingestVars, images, workerVars>>

\* if not images: return 0
NoImages ==
    /\ pc = "ps_loop"
    /\ images = << >>
    /\ exit_code' = Some(0)
    /\ pc' = "ps_done"
    /\ UNCHANGED <<storeFrame, tableVars, img_idx, results, metrics, db_errors, run_status>>

\* One pass of the loop: process_image on the next image and the counters;
\* an exception of process_image ends process_store.
ProcessImage ==
    /\ pc = "ps_loop"
    /\ img_idx <= Len(images)
    /\ \E o \in ImageOutcomes(images[img_idx], receipts, item_rows) :
          /\ receipts' = o.tbl
          /\ item_rows' = o.irows
          /\ IF o.raised
             THEN /\ pc' = "ps_raised"
                  /\ UNCHANGED <<img_idx, results, metrics, db_errors>>
             ELSE /\ results' = Append(results, FileResultOf(images[img_idx], o.res))
                  /\ db_errors' = IF ~o.res.ok
                                  THEN Append(db_errors, Val(o.res.error))
                                  ELSE db_errors
                  /\ metrics' = Counted(metrics, FileResultOf(images[img_idx], o.res))
                  /\ img_idx' = img_idx + 1
                  /\ UNCHANGED pc
    /\ UNCHANGED <<storeFrame, run_status, exit_code>>

\* After the loop: the run status and the exit code.
FinishStore ==
    /\ pc = "ps_loop"
    /\ images # << >>
    /\ img_idx > Len(images)
    /\ run_status' = Some(RunStatus(db_errors, results))
    /\ exit_code' = Some(ExitCode(RunStatus(db_errors, results)))
    /\ pc' = "ps_done"
    /\ UNCHANGED <<storeFrame, tableVars, img_idx, results, metrics, db_errors>>

NextStore ==
    \/ NoImages
    \/ ProcessImage
    \/ FinishStore

SpecStore == InitStore /\ [][NextStore]_vars

(***************************************************************************)
(* Two workers in the database block of process_image at the same time,    *)
(* each with its own image, on the same two tables.  upsert_receipt is     *)
(* receipt_exists followed by insert_receipt: two requests to the          *)
(* database, with nothing that holds the table between them, so the other  *)
(* worker's requests may fall in between.  The tables are the ones the     *)
(* code writes to with plain inserts; a row is refused only by the         *)
(* request failing.                                                        *)
(***************************************************************************)
Workers == {1, 2}

HashOf(wk) == images[wk].hash

InitWorkers ==
    /\ pc = "workers"
    /\ dry_run = FALSE /\ no_db = FALSE
    /\ config_ok = TRUE /\ client_ok = TRUE
    /\ images \in {il \in ImageLists : Len(il) = 2 /\ \A k \in DOMAIN il : ReachesUpsert(il[k])}
    /\ img_idx = 1 /\ results = << >>
    /\ metrics = [success |-> 0, warn |-> 0, failed |-> 0, duplicates |-> 0]
    /\ db_errors = << >> /\ run_status = None /\ exit_code = None
    /\ receipts \in {<< >>, <<[hash |-> "h1", id |-> 1]>>}
    /\ item_rows = << >>
    /\ w_pc = [wk \in Workers |-> "exists"]
    /\ w_seen = [wk \in Workers |-> None]
    /\ w_result = [wk \in Workers |-> None]
    /\ move_files = FALSE /\ write_json_files = FALSE
    /\ attempts = 0 /\ last_exc = None /\ parsed = None
    /\ db_calls = << >> /\ db_result = None /\ outcome = None
    /\ moved_to = None /\ written = << >> /\ file_result = None
    /\ IdlePipeline
    /\ IdleDedupe
    /\ IdleInv

workersFrame == <<pc, pipelineVars, dedupeVars, invVars, ingestVars, runnerVars>>

\* receipt_exists of worker wk: the query raises (caught by upsert_receipt),
\* or answers from the table as it is now; a row found ends upsert_receipt
\* with skipped.
ReceiptExists(wk) ==
    /\ w_pc[wk] = "exists"
    /\ \/ /\ w_result' = [w_result EXCEPT ![wk] =
                             Some(DbResult(FALSE, FALSE, Some("db error"), None))]
          /\ w_pc' = [w_pc EXCEPT ![wk] = "done"]
          /\ UNCHANGED w_seen
       \/ /\ w_seen' = [w_seen EXCEPT ![wk] = Some(HasRow(receipts, HashOf(wk)))]
          /\ IF HasRow(receipts, HashOf(wk))
             THEN /\ w_result' = [w_result EXCEPT ![wk] =
                                     Some(DbResult(TRUE, TRUE, None, None))]
                  /\ w_pc' = [w_pc EXCEPT ![wk] = "done"]
             ELSE /\ w_pc' = [w_pc EXCEPT ![wk] = "insert"]
                  /\ UNCHANGED w_result
    /\ UNCHANGED <<workersFrame, tableVars>>

\* insert_receipt of worker wk, on the table as it is now, and the test
\* that guards the item calls.
InsertReceipt(wk) ==
    /\ w_pc[wk] = "insert"
    /\ \E o \in InsertOutcomes(receipts, HashOf(wk)) :
          /\ receipts' = o.tbl
          /\ w_result' = [w_result EXCEPT ![wk] = Some(o.res)]
          /\ w_pc' = [w_pc EXCEPT ![wk] = IF ItemsFollow(o.res) THEN "items" ELSE "done"]
    /\ UNCHANGED <<workersFrame, item_rows, w_seen>>

\* fetch_item_food_hints and insert_items of worker wk.
InsertItems(wk) ==
    /\ w_pc[wk] = "items"
    /\ \E o \in ItemsOutcomes([res |-> Val(w_result[wk]), tbl |-> receipts], item_rows) :
          /\ item_rows' = o.irows
          /\ w_result' = [w_result EXCEPT ![wk] = Some(o.res)]
          /\ w_pc' = [w_pc EXCEPT ![wk] = IF o.raised THEN "raised" ELSE "done"]
    /\ UNCHANGED <<workersFrame, receipts, w_seen>>

NextWorkers ==
    \/ \E wk \in Workers : ReceiptExists(wk)
    \/ \E wk \in Workers : InsertReceipt(wk)
    \/ \E wk \in Workers : InsertItems(wk)

SpecWorkers == InitWorkers /\ [][NextWorkers]_vars

(***************************************************************************)
(* Properties.                                                             *)
(***************************************************************************)
Last(q) == q[Len(q)]

RECURSIVE SumDiscounts(_)
SumDiscounts(its) ==
    IF its = << >> THEN 0 ELSE Head(its).discount + SumDiscounts(Tail(its))

\* An item without the needs_review flag that post-processing adds.
Core(it) == [f \in DOMAIN it \ {"needs_review"} |-> it[f]]
Cores(its) == [x \in DOMAIN its |-> Core(its[x])]

\* C1: every item parse_items has emitted has a name that is neither null nor
\* empty and a paid_amount strictly greater than 0, whatever the input lines.
C1_EmittedItemsComplete ==
    \A x \in DOMAIN items :
        /\ items[x].name # None
        /\ Val(items[x].name) # << >>
        /\ items[x].paid_amount # None
        /\ Val(items[x].paid_amount) > 0

\* C1 at work: one anchor was emitted as an item and another one, which
\* lacked a name or a paid amount, was turned into a warning instead.
C1_Witness == pc = "done" /\ items # << >> /\ warnings # << >>

\* The shape of scenario S4: a qty line, a name line, a positive paid line,
\* discount preludes, at most one DISCOUNT marker, and a negative amount
\* whose VAT letter is not D as the last line.
C2_IsName(t) ==
    /\ t.qty = None /\ t.money = None /\ t.vat_only = None
    /\ ~t.totals /\ ~t.footer /\ ~t.prelude /\ ~t.marker
C2_IsPaid(t) == t.money # None /\ ~t.minus /\ Val(t.money) > 0 /\ t.qty = None
C2_IsNegative(t) ==
    /\ t.money # None /\ t.minus /\ t.qty = None /\ ~t.totals
    /\ Last(t.cand) # "D"
C2_Shape(ls) ==
    /\ Len(ls) >= 4
    /\ IsQtyLine(ls, 1)
    /\ C2_IsName(Line(ls, 2))
    /\ C2_IsPaid(Line(ls, 3))
    /\ C2_IsNegative(Line(ls, Len(ls)))
    /\ \E m \in 3..(Len(ls) - 1) :
          /\ \A p \in 4..m : Line(ls, p).prelude
          /\ \A p \in (m + 1)..(Len(ls) - 1) : Line(ls, p).marker /\ p = m + 1

\* C2: on a receipt of the S4 shape the record has one item, its discount is
\* the absolute value of the trailing negative amount, its discount_raw is
\* set, and discount_total includes that amount.
C2_PatternD_S4 ==
    (pc = "done" /\ C2_Shape(lines)) =>
        /\ Len(items) = 1
        /\ items[1].discount = Abs(Val(Line(lines, Len(lines)).money))
        /\ items[1].discount_raw # None
        /\ discount_total >= Abs(Val(Line(lines, Len(lines)).money))

\* C3: while collecting, a step on a VAT-only line leaves its letter in
\* pending_vat; a bare positive money line accepted while pending_vat is set
\* takes the letter as the item's VAT code, appends it to the raw paid text
\* and clears pending_vat; and scenario S3 ends with one item of paid_amount
\* 7.00 and vat B.
C3_PendingVat ==
    /\ [][(pc = "collect" /\ j <= Len(lines) /\ Line(lines, j).vat_only # None)
            => pending_vat' = Line(lines, j).vat_only]_vars
    /\ [][(/\ pc = "collect" /\ j <= Len(lines) /\ pending_vat # None
           /\ Line(lines, j).money_only # None
           /\ cur_paid = None /\ cur_paid' # None)
            => /\ cur_vat' = pending_vat
               /\ cur_paid_raw' = Some(Line(lines, j).cand \o <<" ">> \o <<Val(pending_vat)>>)
               /\ pending_vat' = None]_vars
    /\ []((pc = "done" /\ lines = Tokens(S3))
            => /\ Len(items) = 1
               /\ items[1].paid_amount = Some(700)
               /\ items[1].vat = Some("B"))

\* A negative amount of VAT letter D: the letter ends the line of the
\* amount, or the line ends with the amount and the letter stands alone on
\* the line after it.
C4_IsDNegative(ls, p) ==
    /\ Line(ls, p).money # None
    /\ Line(ls, p).minus
    /\ \/ Last(Line(ls, p).cand) = "D"
       \/ /\ IsDigit(Last(Line(ls, p).cand))
          /\ p < Len(ls)
          /\ Line(ls, p + 1).cand = <<"D">>

\* C4: no item's discount was read from a negative amount of VAT letter D,
\* be it attached by Pattern D or by attach_discounts_from_lei; the amount
\* behind sgr_recovered_amount is such an amount.
C4_NoDiscountFromD ==
    \A x \in DOMAIN items :
        items[x].discount_pos # 0 => ~C4_IsDNegative(lines, items[x].discount_pos)

\* C5: in the finished record discount_total is the sum of the discounts of
\* its items, with or without a LEI stream and whichever pass attached them.
C5_DiscountTotalIsSum ==
    pc = "done" => discount_total = SumDiscounts(items)

\* C6: once attach_discounts_from_lei has run, an item's discount is the one
\* that pass attached from the LEI stream, or it is 0 with no discount_raw; a
\* discount of Pattern D does not survive.
C6_ReconcilerAuthoritative ==
    pc \in {"post", "done"} =>
        \A x \in DOMAIN items :
            \/ items[x].discount_by = "lei"
            \/ items[x].discount = 0 /\ items[x].discount_raw = None

\* What an amount text is worth when its last two digits are the decimals
\* and every "." or " " before the decimal separator groups thousands.
C7_Intended(text) ==
    100 * DigitsValue(RemoveChar(RemoveChar(Slice(text, 1, Len(text) - 3), "."), " "))
      + DigitsValue(Slice(text, Len(text) - 1, Len(text)))

\* C7: parse_money reads the separator before the two final digits as the
\* decimal separator, "." as well as ",", and "." or " " before three digits
\* as a thousands separator: 1.234,56 and 1 234,56 are 1234.56, and 12.19
\* and 12,19 are both 12.19.
C7_ParseMoney ==
    pc = "money_done" => money_value = Some(C7_Intended(money_text))

\* C8: the status is fail, with the TOTAL error, exactly when total is null
\* (warnings or not); otherwise warn exactly when there are warnings;
\* otherwise ok.
C8_Status ==
    pc = "done" =>
        /\ (status = "fail") <=> (total = None)
        /\ (status = "warn") <=> (total # None /\ warnings # << >>)
        /\ (status = "ok") <=> (total # None /\ warnings = << >>)
        /\ (error = Some(NoTotalError)) <=> (total = None)
        /\ total # None => error = None

\* C8 at work: a record without a total that also carries a warning, which
\* must be fail and not warn.
C8_Witness ==
    pc = "done" /\ total = None /\ warnings # << >> /\ status = "fail"

\* No line of the receipt is LEI once put in upper case.
C9_NoLei == \A p \in DOMAIN lines : Line(lines, p).upper # <<"L", "E", "I">>

\* C9: without a LEI line the LEI stream is empty, total is null, the status
\* is fail, and from the end of parse_items on the items stay what the state
\* machine made them (needs_review aside).
C9_NoLeiRecord ==
    /\ [](C9_NoLei =>
            /\ lei_tokens = << >>
            /\ _extract_amount_stream_from_lei(lines) = << >>
            /\ total = None
            /\ pc = "done" => status = "fail")
    /\ [][(C9_NoLei /\ pc \in {"sgr", "attach_start", "attach", "post"})
            => Cores(items') = Cores(items)]_vars

\* C9 at work: a finished record of a receipt without LEI that has an item.
C9_Witness ==
    pc = "done" /\ C9_NoLei /\ items # << >> /\ status = "fail"

\* C10: after extract_totals, total is non-null exactly when the LEI stream
\* has a positive value and is then the last of them, whatever negative
\* tokens follow; with two or more positives subtotal is the one before.
C10_TotalIsLastPositive ==
    pc \notin {"begin", "totals", "money", "money_done"} =>
        LET lei == _extract_amount_stream_from_lei(lines)
            pos == {t \in DOMAIN lei : lei[t].v > 0}
            last == CHOOSE t \in pos : \A x \in pos : x <= t
            prev == CHOOSE t \in pos \ {last} : \A x \in pos \ {last} : x <= t
        IN  /\ (total # None) <=> (pos # {})
            /\ pos # {} => total = Some(lei[last].v)
            /\ Cardinality(pos) >= 2 => subtotal = Some(lei[prev].v)

\* C10 at work: a stream of two different positive values and a negative
\* token after them.
C10_Witness ==
    /\ pc = "done"
    /\ total # None /\ subtotal # None /\ total # subtotal
    /\ lei_tokens # << >> /\ Last(lei_tokens).v < 0

\* The least element of a non-empty set of positions.
MinOf(S) == CHOOSE x \in S : \A y \in S : x <= y

\* The text ends with the letter D standing as a word of its own, spaces
\* after it aside.
C11_EndsInD(text) ==
    LET t == RStrip(text)
    IN  /\ t # << >>
        /\ Last(t) = "D"
        /\ (Len(t) = 1 \/ ~IsWordChar(t[Len(t) - 1]))

\* The negative tokens of the LEI stream whose raw text ends with D, and the
\* negative amount lines of the input that a line equal to D follows.
C11_LeiHits(ls) ==
    LET lei == _extract_amount_stream_from_lei(ls)
    IN  {t \in DOMAIN lei : lei[t].v < 0 /\ C11_EndsInD(lei[t].raw.upper)}
C11_SplitHits(ls) ==
    {p \in 1..(Len(ls) - 1) :
        /\ Line(ls, p + 1).cand = <<"D">>
        /\ Line(ls, p).money # None /\ Line(ls, p).minus
        /\ Val(Line(ls, p).money) > 0}

\* C11: once parse_items has returned, sgr_recovered is the absolute value of
\* the first negative LEI token whose raw text ends with the letter D; without
\* one, of the first negative amount line of the input that a line equal to D
\* follows; without one, 0.  The record's sgr_bottle_charge is 0.
C11_SgrRecovered ==
    /\ pc \in {"attach_start", "attach", "post", "done"} =>
          sgr_recovered =
            IF C11_LeiHits(lines) # {}
            THEN Abs(_extract_amount_stream_from_lei(lines)[MinOf(C11_LeiHits(lines))].v)
            ELSE IF C11_SplitHits(lines) # {}
            THEN Val(Line(lines, MinOf(C11_SplitHits(lines))).money)
            ELSE 0
    /\ pc = "done" => sgr_charge = Some(0)

\* C11 at work: the stream holds a negative token of another letter before
\* the D token, and the input holds a split D amount of a different value
\* before the LEI line; the D token of the stream wins.
C11_Witness ==
    /\ pc = "done"
    /\ C11_LeiHits(lines) # {} /\ C11_SplitHits(lines) # {}
    /\ sgr_recovered # Val(Line(lines, MinOf(C11_SplitHits(lines))).money)
    /\ sgr_recovered > 0

\* C11 at work without a D token in the stream: the split amount is taken.
C11_WitnessSplit ==
    /\ pc = "done"
    /\ C11_LeiHits(lines) = {} /\ C11_SplitHits(lines) # {}
    /\ sgr_recovered > 0

\* C12: no item parse_items has emitted has the VAT code D bound with its
\* paid amount, be the letter inline on the positive paid line or alone on
\* the line after it.
C12_NoItemVatD ==
    \A x \in DOMAIN items : items[x].vat # Some("D")

\* C13: no item is emitted and no warning is recorded for a qty line that
\* stands after the first totals-marker line of the input.
C13_FirstTotals(ls) == MinOf({p \in DOMAIN ls : Line(ls, p).totals})
C13_StopsAtTotals ==
    (\E p \in DOMAIN lines : Line(lines, p).totals) =>
        /\ \A x \in DOMAIN items : items[x].anchor < C13_FirstTotals(lines)
        /\ \A x \in DOMAIN warnings : warnings[x].anchor < C13_FirstTotals(lines)

\* A Returnare garantie line stands between the anchor and the line at which
\* collection stopped.
C14_ReturnareSeen == \E p \in (i + 1)..(j - 1) : Line(lines, p).returnare

\* C14: when collection ends at a qty line, a totals marker or the end of the
\* input with the name or the paid amount unbound (no Returnare garantie line
\* having been met), the close appends exactly one Incomplete-item warning,
\* emits no item, and resumes the outer scan at the line after the anchor.
C14_IncompleteWarns ==
    [][(/\ pc = "close"
        /\ (cur_name = None \/ cur_paid = None)
        /\ ~C14_ReturnareSeen)
         => /\ Len(warnings') = Len(warnings) + 1
            /\ SubSeq(warnings', 1, Len(warnings)) = warnings
            /\ Last(warnings').text = "Incomplete item after qty line"
            /\ Last(warnings').anchor = i
            /\ items' = items
            /\ i' = i + 1]_vars

\* The line is a qty line or a totals marker.
C15_IsStop(p) == IsQtyLine(lines, p) \/ Line(lines, p).totals

\* The collection loop is at a Returnare garantie line that its earlier
\* tests let through, and no name is bound.
C15_Met ==
    /\ pc = "collect" /\ j <= Len(lines) /\ cur_name = None
    /\ Line(lines, j).returnare
    /\ ~C15_IsStop(j)
    /\ ~Line(lines, j).footer /\ ~Line(lines, j).prelude /\ ~Line(lines, j).marker

\* The anchor at a is a refund placeholder: a Returnare garantie line follows
\* it, directly or after a positive paid line without a name.
C15_Placeholder(a) ==
    /\ a + 1 <= Len(lines)
    /\ \/ Line(lines, a + 1).returnare
       \/ /\ a + 2 <= Len(lines)
          /\ Line(lines, a + 1).inline # None
          /\ Line(lines, a + 1).inline[1] > 0
          /\ ~Line(lines, a + 1).name_part_ok
          /\ Line(lines, a + 2).returnare

\* C15: a Returnare garantie line met before a name is bound ends the
\* collection with nothing bound (a paid amount already bound is dropped) and
\* with j on the next qty line or totals marker, or past the last line; the
\* close emits no item and, when j is on a line, moves the outer index there
\* without a warning; a qty line at the outer index starts a collection as
\* usual; and no placeholder anchor has an item in the record.
C15_ReturnareSkips ==
    /\ [][C15_Met =>
            /\ pc' = "close"
            /\ cur_name' = None /\ cur_paid' = None
            /\ j' > j
            /\ \A p \in (j + 1)..(j' - 1) : p <= Len(lines) /\ ~C15_IsStop(p)
            /\ (j' = Len(lines) + 1 \/ (j' <= Len(lines) /\ C15_IsStop(j')))]_vars
    /\ [][(pc = "close" /\ cur_name = None /\ C14_ReturnareSeen) =>
            /\ items' = items
            /\ j <= Len(lines) => (i' = j /\ warnings' = warnings)]_vars
    /\ [][(pc = "scan" /\ i <= Len(lines) /\ IsQtyLine(lines, i)
                       /\ ~Line(lines, i).totals) =>
            (pc' = "collect" /\ j' = i + 1 /\ i' = i)]_vars
    /\ [](\A x \in DOMAIN items : ~C15_Placeholder(items[x].anchor))

\* C15 at work: the first anchor had its paid amount bound when the
\* Returnare garantie line was met, a line was skipped after it, and the
\* next qty line gave the only item of the record, without a warning.
C15_Witness ==
    /\ pc = "done"
    /\ Len(lines) >= 5
    /\ IsQtyLine(lines, 1)
    /\ Line(lines, 2).inline # None /\ Line(lines, 3).returnare
    /\ ~C15_IsStop(4)
    /\ Len(items) = 1 /\ items[1].anchor = 5
    /\ warnings = << >>

\* A name line, and a positive inline money+VAT line that holds nothing else.
C16_IsName(t) == C2_IsName(t) /\ ~t.returnare
C16_IsPaid(t) == t.inline # None /\ t.inline[1] > 0 /\ t.inline[3] = << >>

\* Pattern A (name then paid) or Pattern B (paid then name) after the qty
\* line at 1, followed by a qty line, a totals marker or the end of the input.
C16_PatternA == C16_IsName(Line(lines, 2)) /\ C16_IsPaid(Line(lines, 3))
C16_PatternB == C16_IsPaid(Line(lines, 2)) /\ C16_IsName(Line(lines, 3))
C16_Shape ==
    /\ Len(lines) >= 3
    /\ IsQtyLine(lines, 1)
    /\ (C16_PatternA \/ C16_PatternB)
    /\ (Len(lines) = 3 \/ C15_IsStop(4))

\* C16: on such a receipt parse_items returns exactly one item for the
\* anchor, with the text of the name line, the amount of the paid line, the
\* quantity, unit and unit price of the qty line, and discount 0, in either
\* order of the two lines.
C16_OrderIndependent ==
    (pc = "sgr" /\ C16_Shape) =>
        LET name_at == IF C16_PatternA THEN 2 ELSE 3
            paid_at == IF C16_PatternA THEN 3 ELSE 2
            mine == {x \in DOMAIN items : items[x].anchor = 1}
        IN  /\ Cardinality(mine) = 1
            /\ \A x \in mine :
                  /\ items[x].name = Some(Line(lines, name_at).cand)
                  /\ items[x].paid_amount = Some(Line(lines, paid_at).inline[1])
                  /\ items[x].quantity = parse_quantity(Line(lines, 1).qty[1])
                  /\ items[x].unit = Line(lines, 1).qty[2]
                  /\ items[x].unit_price = parse_money(Line(lines, 1).qty[3])
                  /\ items[x].discount = 0

\* The line holds a negative amount.
C17_IsNegative(p) == Line(lines, p).money # None /\ Line(lines, p).minus

\* C17: the discount of every item is 0 or the absolute amount of one
\* negative line of the input, never a sum of several; the close of an item
\* appends one item and moves the outer index over at most one negative
\* amount; a pass of the reconciler's loop changes at most the item it is at.
C17_OneDiscount ==
    /\ [](\A x \in DOMAIN items :
            /\ items[x].discount >= 0
            /\ items[x].discount_pos = 0 =>
                  (items[x].discount = 0 /\ items[x].discount_raw = None)
            /\ items[x].discount_pos # 0 =>
                  /\ items[x].discount_pos \in DOMAIN lines
                  /\ C17_IsNegative(items[x].discount_pos)
                  /\ items[x].discount = Val(Line(lines, items[x].discount_pos).money))
    /\ [][pc = "close" =>
            /\ Len(items') <= Len(items) + 1
            /\ Len(items') = Len(items) + 1 =>
                  Cardinality({p \in j..(i' - 1) : C17_IsNegative(p)}) <= 1]_vars
    /\ [][pc = "attach" =>
            \A x \in DOMAIN items : x # it_idx => items'[x] = items[x]]_vars

\* C17 at work: an item left the reconciler with the discount of a LEI
\* token while a negative amount stood in the item lines before the LEI
\* line, where Pattern D reads.
C17_Witness ==
    /\ pc = "done"
    /\ \E x \in DOMAIN items :
          /\ items[x].discount_by = "lei" /\ items[x].discount > 0
          /\ \E p \in 1..(_find_lei_section(lines) - 1) :
                C17_IsNegative(p) /\ PatternD(lines, p).pos = p

\* C18: the items stand in the order of the qty lines that anchored them,
\* and no qty line has anchored two of them; this holds of what parse_items
\* returns and still holds of the record after the dedupe.
C18_AnchorOrder ==
    \A x, y \in DOMAIN items :
        x < y => (/\ items[x].anchor < items[y].anchor
                  /\ IsQtyLine(lines, items[x].anchor)
                  /\ IsQtyLine(lines, items[y].anchor))

\* C18 at work: a finished record of two items or more.
C18_Witness == pc = "done" /\ Len(items) >= 2

\* The lines of the input that hold a date, or a time.
C19_DateLines == {p \in DOMAIN ts_lines : DateSearch(_upper_ascii(ts_lines[p])) # None}
C19_TimeLines == {p \in DOMAIN ts_lines : TimeSearch(_upper_ascii(ts_lines[p])) # None}

\* C19: with several lines that hold a date, the date of the result is that
\* of the first of them in input order; likewise for the time.
C19_FirstMatchWins ==
    pc = "ts_done" =>
        /\ C19_DateLines # {} =>
              /\ timestamp # None
              /\ SubSeq(Val(timestamp), 1, 10) =
                    FormatDate(Val(DateSearch(_upper_ascii(ts_lines[MinOf(C19_DateLines)]))))
        /\ (C19_DateLines # {} /\ C19_TimeLines # {}) =>
              SubSeq(Val(timestamp), 12, 19) =
                    FormatTime(Val(TimeSearch(_upper_ascii(ts_lines[MinOf(C19_TimeLines)]))))

\* YYYY-MM-DDTHH:MM:SS
C20_Shape(t) ==
    /\ Len(t) = 19
    /\ \A k \in {1, 2, 3, 4, 6, 7, 9, 10, 12, 13, 15, 16, 18, 19} : IsDigit(t[k])
    /\ t[5] = "-" /\ t[8] = "-" /\ t[11] = "T" /\ t[14] = ":" /\ t[17] = ":"

\* C20: the result is the date, T and the time when a date and a time were
\* found, the date and T00:00:00 when only a date was found, and null when
\* no date was found, a time or not; a non-null result has the shape
\* YYYY-MM-DDTHH:MM:SS.
C20_Compose ==
    pc = "ts_done" =>
        /\ (C19_DateLines # {} /\ C19_TimeLines # {}) =>
              /\ date_s # None /\ time_s # None
              /\ timestamp = Some(Val(date_s) \o <<"T">> \o Val(time_s))
        /\ (C19_DateLines # {} /\ C19_TimeLines = {}) =>
              /\ date_s # None
              /\ timestamp = Some(Val(date_s) \o
                                  <<"T", "0", "0", ":", "0", "0", ":", "0", "0">>)
        /\ C19_DateLines = {} => timestamp = None
        /\ timestamp # None => C20_Shape(Val(timestamp))
        /\ (date_s # None) <=> (C19_DateLines # {})
        /\ (time_s # None) <=> (C19_TimeLines # {})

\* C20 at work: a time was found and no date, and the result is null.
C20_Witness ==
    /\ pc = "ts_done"
    /\ C19_TimeLines # {} /\ C19_DateLines = {}
    /\ time_s # None /\ timestamp = None

\* C20 at work: only a date was found, and the result ends in T00:00:00.
C20_WitnessDateOnly ==
    /\ pc = "ts_done"
    /\ C19_DateLines # {} /\ C19_TimeLines = {}
    /\ timestamp # None

\* The tokens of the stream at or after the cursor that are positive and
\* equal to the paid amount of the item the loop is at.
C25_Matches ==
    {t \in ti..Len(lei_tokens) :
        /\ lei_tokens[t].v > 0
        /\ lei_tokens[t].v = Val(items[it_idx].paid_amount)}

\* C25: a pass of the reconciler's loop over an item with a paid amount
\* looks for the first positive token at or after the cursor that equals the
\* paid amount.  If it attaches a discount, that discount is the token right
\* after the match, a negative token whose letter is not D, and the cursor
\* ends 2 past the match; if there is a match and nothing is attached the
\* item is left alone and the cursor ends 1 past the match; with no match
\* the item is left alone.  The cursor never moves back, so no token is the
\* match or the discount of two items: the discounts the pass attached to
\* different items were read from different lines.
C25_AttachFollowsMatch ==
    [][(pc = "attach" /\ it_idx <= Len(items) /\ items[it_idx].paid_amount # None) =>
          /\ ti' >= ti
          /\ IF C25_Matches = {}
             THEN items'[it_idx] = items[it_idx]
             ELSE LET t == MinOf(C25_Matches)
                  IN  IF items'[it_idx] # items[it_idx]
                      THEN /\ t + 1 <= Len(lei_tokens)
                           /\ lei_tokens[t + 1].v < 0
                           /\ lei_tokens[t + 1].raw.raw_vat # Some("D")
                           /\ items'[it_idx].discount = 0 - lei_tokens[t + 1].v
                           /\ items'[it_idx].discount_pos = lei_tokens[t + 1].pos
                           /\ ti' = t + 2
                      ELSE ti' = t + 1
          /\ \A x, y \in DOMAIN items' :
                (x # y /\ items'[x].discount_by = "lei" /\ items'[y].discount_by = "lei")
                   => items'[x].discount_pos # items'[y].discount_pos]_vars

\* C25 at work: a record of two items with the same paid amount whose stream
\* holds that amount once, followed by a discount; the first item has the
\* discount and the second has none.
C25_Witness ==
    /\ pc = "done"
    /\ Len(items) >= 2
    /\ items[1].paid_amount = items[2].paid_amount
    /\ items[1].discount_by = "lei"
    /\ items[2].discount_by = "none"

\* The first line after the LEI line that starts with a stop prefix, or the
\* position after the last line.
C26_FirstStop(ls) ==
    MinOf({p \in (_find_lei_section(ls) + 1)..Len(ls) : Line(ls, p).stop}
            \cup {Len(ls) + 1})

\* C26: every token of the LEI stream was read from a line after the first
\* LEI line and before the first following line that starts with a stop
\* prefix; no token was read from a qty line or a BUC/KG descriptor line;
\* the tokens stand in the order of their lines; a token is negative exactly
\* when its line holds a '-' once the spaces are removed.
C26_StreamWindow ==
    pc \in {"attach", "post", "done"} =>
        /\ \A t \in DOMAIN lei_tokens :
              LET p == lei_tokens[t].pos
              IN  /\ _find_lei_section(lines) > 0
                  /\ p > _find_lei_section(lines)
                  /\ p < C26_FirstStop(lines)
                  /\ ~IsQtyLine(lines, p)
                  /\ ~Line(lines, p).descriptor
                  /\ (lei_tokens[t].v < 0) <=> Line(lines, p).minus
        /\ \A t1, t2 \in DOMAIN lei_tokens :
              t1 < t2 => lei_tokens[t1].pos < lei_tokens[t2].pos

\* The lines that are amount tokens: a bare amount, a VAT letter alone, or
\* an amount with its VAT letter and nothing else.
C28_IsAmountToken(t) ==
    \/ t.money_only # None
    \/ t.vat_only # None
    \/ t.inline # None /\ t.inline[3] = << >>

\* C28: the name of an emitted item is never a line that is an amount token.
C28_NameIsNoAmount ==
    \A x \in DOMAIN items :
        \A v \in DOMAIN Tok :
            (items[x].name = Some(Tok[v].cand)) => ~C28_IsAmountToken(Tok[v])

\* Two items that share the normalized name, unit, quantity and unit price
\* while exactly one of them has no paid amount.
C27_DuplicatePair(a, b) ==
    /\ _norm_spaces(NameStr(a.name)) = _norm_spaces(NameStr(b.name))
    /\ a.unit = b.unit
    /\ a.quantity = b.quantity
    /\ a.unit_price = b.unit_price
    /\ (a.paid_amount = None) # (b.paid_amount = None)

\* C27: whatever the list of items, what dedupe_incomplete_duplicates returns
\* holds no two neighbours that are a duplicate pair, keeps every item that
\* has a paid amount, in order, and is returned unchanged by a second call.
C27_DedupeClosed ==
    pc = "dedupe_done" =>
        /\ \A x \in 1..(Len(dd_out) - 1) : ~C27_DuplicatePair(dd_out[x], dd_out[x + 1])
        /\ SelectSeq(dd_out, LAMBDA e : e.paid_amount # None)
              = SelectSeq(dd_items, LAMBDA e : e.paid_amount # None)
        /\ dd_again = dd_out

\* C21: the second of two calls of process_one on the same lines and context
\* strings returns the record the first returned, whatever the debug flag
\* of either call and whatever an earlier call left in the module globals.
C21_SameRecord ==
    (run = 2 /\ pc = "done") => Some(out_json) = Some(Val(first_return)[1])

\* C21 at work: the second call, without debug, has built a record with an
\* item and a warning, while the first call ran with debug and returned a
\* trace with parse entries, which the trace of the second does not hold.
C21_Witness ==
    /\ run = 2 /\ pc = "done"
    /\ ~debug
    /\ items # << >> /\ warnings # << >>
    /\ \E k \in DOMAIN Val(first_return)[2] : Val(first_return)[2][k].tag = "[PARSE_DEBUG]"
    /\ \A k \in DOMAIN dbg : dbg[k].tag # "[PARSE_DEBUG]"

\* C22: when two calls of process_one on distinct inputs interleave, the
\* debug trace each returns holds only entries of its own parse, and what
\* each has built is what it builds when it runs alone: the lines of its own
\* input, in order.
C22_OwnTraceOnly ==
    \A t \in Invocations :
        inv_pc[t] = "done" =>
            /\ \A k \in DOMAIN inv_dbg[t] :
                  inv_dbg[t][k].tag = "[PARSE_DEBUG]" \/ inv_dbg[t][k].line[1] = t
            /\ inv_items[t] = [k \in DOMAIN inv_todo[t].msgs |-> inv_todo[t].msgs[k].line]


\* Whether process_image has substituted the failure payload for the parser's
\* record.
Substituted == parsed # None /\ last_exc # None

\* C23: when the parser raises, the payload process_image substitutes has
\* the same set of top-level fields as a schema-v3 record, raw_text
\* included, the same processing and merchant sub-fields, no items, total 0,
\* processing.status 'fail' and processing.error = {PARSER_EXCEPTION, message}.
C23_FailurePayloadShape ==
    Substituted =>
        LET p == Val(parsed)
            v3 == ParserRecord("fail", None)
        IN  /\ DOMAIN p = DOMAIN v3
            /\ DOMAIN p.processing = DOMAIN v3.processing
            /\ DOMAIN p.merchant = DOMAIN v3.merchant
            /\ p.items = << >>
            /\ p.total = Some(0)
            /\ p.processing.status = "fail"
            /\ p.processing.error = [code |-> "PARSER_EXCEPTION", message |-> Val(last_exc)]

\* C24: for one image the parser is invoked at most 3 times; an attempt is
\* made only while no record and no payload is there, so a successful attempt
\* and the substitution both end the attempts; the payload is substituted
\* only after the third attempt has failed; and process_image then returns
\* status 'fail' and outcome 'failed'.
C24_RetryThenSubstitute ==
    /\ [](/\ attempts <= 3
          /\ Substituted => attempts = 3
          /\ (pc = "pi_done" /\ Substituted) =>
                /\ Val(file_result).status = "fail"
                /\ Val(file_result).outcome = "failed")
    /\ [][/\ attempts' # attempts => (parsed = None /\ attempts' = attempts + 1)
          /\ (parsed = None /\ parsed' # None /\ last_exc' # None) => attempts' = 3
          /\ parsed # None => parsed' = parsed]_vars

C24_Witness ==
    /\ pc = "pi_done"
    /\ attempts = 3
    /\ Substituted
    /\ Val(file_result).status = "fail"
    /\ Val(file_result).outcome = "failed"

\* C29: process_image reports outcome 'failed' exactly when the parsed
\* status is 'fail' or db_result.ok is false, otherwise 'processed'; when not
\* dry_run the image is moved, if moving is enabled, to failed/<store>
\* exactly when the outcome is 'failed' and to processed/<store> otherwise,
\* and exactly one artifact is written, if JSON is enabled: '.error.json'
\* when failed, '.json' otherwise.
C29_OutcomeAndArtifacts ==
    pc = "pi_done" =>
        LET failed == ProcessingStatus(Val(parsed)) = "fail" \/ ~db_result.ok
        IN  /\ outcome = Some(IF failed THEN "failed" ELSE "processed")
            /\ Val(file_result).outcome = Val(outcome)
            /\ ~dry_run =>
                 /\ moved_to = IF ~move_files THEN None
                               ELSE IF failed THEN Some(<<"failed", Store>>)
                               ELSE Some(<<"processed", Store>>)
                 /\ Len(written) = IF write_json_files THEN 1 ELSE 0
                 /\ write_json_files =>
                      written[1].suffix = IF failed THEN ".error.json" ELSE ".json"

C29_Witness ==
    /\ pc = "pi_done"
    /\ ~dry_run /\ move_files /\ write_json_files
    /\ ProcessingStatus(Val(parsed)) = "ok"
    /\ ~db_result.ok
    /\ outcome = Some("failed")
    /\ moved_to = Some(<<"failed", Store>>)
    /\ Len(written) = 1 /\ written[1].suffix = ".error.json"

\* C30: with dry_run set process_image makes no database call, moves no
\* file and writes no artifact, whatever the parse result and the other flags;
\* with no_db set and dry_run unset it makes no database call, and it moves
\* the file and writes the artifact as the move and JSON flags say.
C30_DryRunAndNoDb ==
    /\ dry_run => (db_calls = << >> /\ moved_to = None /\ written = << >>)
    /\ no_db => db_calls = << >>
    /\ (pc = "pi_done" /\ no_db /\ ~dry_run) =>
          /\ (moved_to # None) = move_files
          /\ (Len(written) = 1) = write_json_files

C30_Witness ==
    /\ pc = "pi_done"
    /\ dry_run /\ ~no_db /\ config_ok /\ client_ok /\ move_files /\ write_json_files
    /\ ProcessingStatus(Val(parsed)) = "ok"
    /\ Val(parsed).timestamp # None
    /\ db_calls = << >> /\ moved_to = None /\ written = << >>


\* C31: process_image calls upsert_receipt only when dry_run and no_db are
\* false, the configuration is complete, the client is there, the parsed
\* status is not 'fail' and the timestamp is set; it calls insert_items only
\* after upsert_receipt returned ok, not skipped, with a receipt_id; so for a
\* record with status 'fail' or without timestamp the client is never called.
C31_GuardedDbCalls ==
    /\ [](/\ db_calls # << >> =>
                /\ db_calls[1] = "upsert_receipt"
                /\ ~dry_run /\ ~no_db /\ config_ok /\ client_ok
                /\ ProcessingStatus(Val(parsed)) # "fail"
                /\ Val(parsed).timestamp # None
          /\ (parsed # None /\ (ProcessingStatus(Val(parsed)) = "fail"
                                \/ Val(parsed).timestamp = None)) => db_calls = << >>)
    /\ [][(Len(db_calls') > Len(db_calls) /\ db_calls'[Len(db_calls')] = "insert_items") =>
              /\ db_calls = <<"upsert_receipt">>
              /\ db_result.ok /\ ~db_result.skipped /\ db_result.receipt_id # None]_vars

C31_Witness ==
    /\ pc = "pi_done"
    /\ db_calls = <<"upsert_receipt", "fetch_item_food_hints", "insert_items">>
    /\ db_result.ok
    /\ outcome = Some("processed")


\* C34: parse_items terminates: every pass of the outer loop that does not
\* leave it strictly increases the outer index i (the non-anchor step, the
\* refund skip i = j, the incomplete step i + 1, max(i + 1, k)), every pass
\* of the inner collection loop strictly increases j or leaves the loop, and
\* neither index goes beyond the end of the lines by more than one.
C34_IndicesAdvance ==
    /\ [](i <= Len(lines) + 1 /\ j <= Len(lines) + 1)
    /\ [][/\ (pc = "scan" /\ pc' = "scan") => i' > i
          /\ (pc = "scan" /\ pc' = "collect") => (i' = i /\ j' = i + 1)
          /\ pc = "collect" => ((j' > j /\ pc' = "collect") \/ (j' >= j /\ pc' = "close"))
          /\ pc = "close" => (i' > i /\ pc' = "scan")]_vars

\* The outer loop has ended after at least one pass of each kind: an item was
\* closed, an anchor was given up with a warning, and a refund anchor skipped.
C34_Witness ==
    /\ pc = "sgr"
    /\ i = Len(lines) + 1
    /\ items # << >>
    /\ warnings # << >>
    /\ \E p \in DOMAIN lines :
          /\ IsQtyLine(lines, p)
          /\ \A x \in DOMAIN items : items[x].anchor # p
          /\ \A x \in DOMAIN warnings : warnings[x].anchor # p


\* The positions of the qty lines of ls, and the position of its first totals
\* marker (Len + 1 when there is none).
QtyPositions(ls) == {p \in DOMAIN ls : IsQtyLine(ls, p)}
FirstTotals(ls) ==
    LET hits == {p \in DOMAIN ls : Line(ls, p).totals}
    IN  IF hits = {} THEN Len(ls) + 1 ELSE CHOOSE p \in hits : \A q \in hits : p <= q

\* How many items and warnings the anchor at p has produced.
Outcomes(p) ==
    Cardinality({x \in DOMAIN items : items[x].anchor = p})
    + Cardinality({x \in DOMAIN warnings : warnings[x].anchor = p})

MatchesPaid(tok, paid) == tok.v > 0 /\ money_round(tok.v) = money_round(Val(paid))

\* C36: in attach_discounts_from_lei the cursor never moves backward; when an
\* item with a paid amount has no matching positive token at or after the
\* cursor, the cursor goes to the end of the stream; and with the cursor at
\* the end the pass changes no item and adds nothing to the discount total,
\* so that item and every later one get no discount from the pass.
C36_CursorForward ==
    [][(pc = "attach" /\ it_idx <= Len(items)) =>
          /\ ti' >= ti
          /\ ti' <= Len(lei_tokens) + 1
          /\ (/\ items[it_idx].paid_amount # None
              /\ \A t \in ti..Len(lei_tokens) :
                    ~MatchesPaid(lei_tokens[t], items[it_idx].paid_amount))
                => (ti' = Len(lei_tokens) + 1 /\ items' = items)
          /\ ti = Len(lei_tokens) + 1 =>
                (ti' = ti /\ items' = items /\ discount_total' = discount_total)]_vars

\* The pass has ended with the cursor at the end because an earlier item had
\* no token in the stream, and a later item got no discount although its paid
\* amount, followed by a discount token, is in the stream.
C36_Witness ==
    /\ pc = "post"
    /\ ti = Len(lei_tokens) + 1
    /\ \E x, y \in DOMAIN items :
          /\ y < x
          /\ items[y].paid_amount # None
          /\ \A t \in DOMAIN lei_tokens : ~MatchesPaid(lei_tokens[t], items[y].paid_amount)
          /\ items[x].paid_amount # None
          /\ items[x].discount_by # "lei"
          /\ items[x].discount = 0
          /\ \E t \in 1..(Len(lei_tokens) - 1) :
                /\ MatchesPaid(lei_tokens[t], items[x].paid_amount)
                /\ IsDiscountToken(lei_tokens[t + 1])


\* Whether collection passes line q without binding anything: footer noise,
\* a discount prelude or marker, or a VAT-only line.
PassedUnbound(t) == t.footer \/ t.prelude \/ t.marker \/ t.vat_only # None

\* An anchor that parse_items treats as a 'Returnare garantie' placeholder:
\* the first line after the qty line that collection does not pass unbound is
\* a 'Returnare garantie' line.
RefundAnchor(ls, p) ==
    /\ IsQtyLine(ls, p)
    /\ \E q \in (p + 1)..Len(ls) :
          /\ Line(ls, q).returnare
          /\ ~Line(ls, q).totals /\ Line(ls, q).qty = None
          /\ ~PassedUnbound(Line(ls, q))
          /\ \A r \in (p + 1)..(q - 1) :
                /\ PassedUnbound(Line(ls, r))
                /\ ~Line(ls, r).totals /\ Line(ls, r).qty = None

\* C37: an anchor treated as a 'Returnare garantie' placeholder never adds
\* an 'Incomplete item' warning, also when it is the last anchor and neither
\* a qty line nor a totals marker follows it; so a record whose warnings
\* would all come from refund anchors never has status 'warn'.
C37_RefundNeverWarns ==
    /\ \A x \in DOMAIN warnings : ~RefundAnchor(lines, warnings[x].anchor)
    /\ (pc = "done" /\ status = "warn") =>
          \E x \in DOMAIN warnings : ~RefundAnchor(lines, warnings[x].anchor)


\* How many rows of the receipts table have hash h.
RowsOf(h) == Cardinality({k \in DOMAIN receipts : receipts[k].hash = h})

\* A pass of the loop of process_store in which process_image returned.
ImageReturned == pc = "ps_loop" /\ Len(results') = Len(results) + 1

\* What C32 says of every run but the message: one row per hash at most; a
\* run that reaches upsert_receipt while a row with its hash exists inserts
\* neither a receipt nor items and, unless the query failed, returns ok with
\* skipped; and a run of an enabled database that returns skipped found a
\* row, inserted nothing and has outcome 'processed'.
DedupeByHash ==
    /\ [](\A h \in Hashes : RowsOf(h) <= 1)
    /\ [][ImageReturned =>
            LET img == images[img_idx]
                r == results'[Len(results')]
            IN  /\ (ReachesUpsert(img) /\ HasRow(receipts, img.hash)) =>
                      /\ receipts' = receipts /\ item_rows' = item_rows
                      /\ r.db_result.ok => r.db_result.skipped
                /\ (DbEnabled(dry_run, no_db) /\ r.db_result.skipped) =>
                      /\ HasRow(receipts, img.hash)
                      /\ r.db_result.ok
                      /\ receipts' = receipts /\ item_rows' = item_rows
                      /\ r.outcome = "processed"]_vars

\* C32 as stated: deduplication by file hash, and the run that finds an
\* existing row is reported with the message 'dedup'.
C32_DedupMessageExact ==
    /\ DedupeByHash
    /\ [][(ImageReturned /\ DbEnabled(dry_run, no_db)
            /\ results'[Len(results')].db_result.skipped) =>
              results'[Len(results')].message = <<"dedup">>]_vars

\* C32, amended: deduplication by file hash, and the message of the run that
\* finds an existing row begins with 'dedup'; it is 'dedup' alone when the
\* parse status is 'ok' and is followed by the warnings detail when it is
\* 'warn'.
C32_DedupByHash ==
    /\ DedupeByHash
    /\ [][(ImageReturned /\ DbEnabled(dry_run, no_db)
            /\ results'[Len(results')].db_result.skipped) =>
              LET r == results'[Len(results')]
              IN  /\ r.message[1] = "dedup"
                  /\ r.status = "ok" => r.message = <<"dedup">>
                  /\ r.status = "warn" => r.message = <<"dedup", "warnings=">>]_vars

\* Two images with the same hash were processed on an empty table: the
\* first was inserted with its items, the second was skipped as a duplicate.
C32_Witness ==
    /\ pc = "ps_done"
    /\ Len(results) = 2
    /\ results[1].hash = results[2].hash
    /\ results[1].db_result.ok /\ ~results[1].db_result.skipped
    /\ results[2].db_result.ok /\ results[2].db_result.skipped
    /\ results[2].outcome = "processed"
    /\ results[2].message[1] = "dedup"
    /\ RowsOf(results[1].hash) = 1
    /\ Len(item_rows) = 1

\* C33: process_store returns 1 exactly when a file of the run had
\* db_result.ok false, the run status then being 'fail'; otherwise it
\* returns 0 with run status 'warn' when a file has parse status 'warn' or
\* 'fail' and 'ok' when none has; success + warn + failed is the number of
\* files processed.
C33_ExitCodeAndCounters ==
    /\ metrics.success + metrics.warn + metrics.failed = Len(results)
    /\ pc = "ps_done" =>
          LET dbFailed == \E k \in DOMAIN results : ~results[k].db_result.ok
              parseIssue == \E k \in DOMAIN results : results[k].status \in {"warn", "fail"}
          IN  /\ exit_code = Some(IF dbFailed THEN 1 ELSE 0)
              /\ images # << >> =>
                    /\ Len(results) = Len(images)
                    /\ run_status = Some(IF dbFailed THEN "fail"
                                         ELSE IF parseIssue THEN "warn"
                                         ELSE "ok")

\* A run that returned 0 with status 'warn' although a file failed to parse
\* (the database was not enabled), counted as failed.
C33_Witness ==
    /\ pc = "ps_done"
    /\ exit_code = Some(0)
    /\ run_status = Some("warn")
    /\ Len(results) = 2
    /\ \E k \in DOMAIN results : results[k].status = "fail" /\ results[k].db_result.ok
    /\ metrics.failed = 1 /\ metrics.success = 1


\* The receipt rows of hash h that have item rows.
ItemSetsOf(h) ==
    Cardinality({k \in DOMAIN item_rows :
                    \E r \in DOMAIN receipts :
                        receipts[r].id = item_rows[k] /\ receipts[r].hash = h})

\* C38: when two workers interleave upsert_receipt for images with the same
\* hash, the table holds at most one receipt row and one set of item rows
\* for that hash.
C38_OneRowUnderInterleaving ==
    (w_pc # << >> /\ HashOf(1) = HashOf(2))
        => (RowsOf(HashOf(1)) <= 1 /\ ItemSetsOf(HashOf(1)) <= 1)

============================================================================
